---- MODULE Spec2Model ----
(***************************************************************************)
(* Goblin Bookie daily sync pipeline: NDJSON sort, streaming merge-join,   *)
(* historical price upsert.  Each stage is modelled from its script under  *)
(* scripts/ and src/utils/.                                                *)
(*                                                                         *)
(* Strings that are compared (card uuids) are sequences of UTF-16 code     *)
(* units.  Opaque strings (names, vendors, dates) are TLA+ strings.        *)
(***************************************************************************)
EXTENDS Integers, Sequences, FiniteSets, TLC

VARIABLES
  sortIn,      \* sortNdjson: lines of the input file
  sortRes,     \* sortNdjson: outcome, output file and the two reported counters
  cardFile,    \* mergeSortedNdjson: lines of cardsSorted.ndjson
  priceFile,   \* mergeSortedNdjson: lines of pricesSorted.ndjson
  card,        \* mergeSortedNdjson: position of cardIter (Len+1 = done)
  price,       \* mergeSortedNdjson: position of priceIter (Len+1 = done)
  output,      \* mergeSortedNdjson: lines written to mergedCards.ndjson
  mergePc,     \* mergeSortedNdjson: "idle" | "loop" | "done" | "failed"
  iters,       \* mergeSortedNdjson: loop iterations executed
  db,          \* the cards collection: the stored documents, in insertion order
  uploadFile,  \* uploadNDJSON: lines of mergedCards.ndjson
  rlPos,       \* uploadNDJSON: next line the readline iterator yields
  buffer,      \* uploadNDJSON: buffered updateOne operations
  total,       \* uploadNDJSON: operations written so far
  uploadPc,    \* uploadNDJSON: "idle" | "loop" | "done" | "failed"
  runs,        \* uploads started so far
  dbAtStart,   \* history: the collection when the current upload started
  supplied,    \* history: (uuid, vendor, type, finish, date) -> price last read
  clean,       \* history: no upload has failed so far
  killedFrom,  \* history: << >>, or <<the collection when the killed upload started>>
  argExisting, \* mergePriceObjects: first argument
  argIncoming, \* mergePriceObjects: second argument
  merged,      \* mergePriceObjects: its result
  remerged,    \* mergePriceObjects: result of merging incoming into merged
  applied,     \* mergePriceObjects: number of applications made
  idFeed,      \* upstream AllIdentifiers.json: the entries of its data object
  priceFeed,   \* upstream AllPrices.json: the entries of its data object
  stage,       \* runAll: the step that runs next
  allIdentifiers, \* temp/AllIdentifiers.json
  allPrices,   \* temp/AllPrices.json
  parsedCards, \* temp/parsedCards.ndjson
  parsedPrices, \* temp/parsedPrices.ndjson
  tempFiles,   \* names of the files in temp/
  dbAfterFirst, \* history: the collection at the end of the first pipeline run
  dlPc,        \* downloadJson: "idle" | "get" | "ended"
  dlFile,      \* downloadJson: the file being downloaded, 1 or 2
  dlFailed,    \* downloadJson: a downloadFile promise did not resolve
  childExit,   \* exit code of the script that ended last: "none" | "0" | "1"
  partialFiles, \* names of the files in temp/ that are not completely written
  sent,        \* history: the operations the current upload gave to bulkWrite
  conn,        \* uploadToMongo: the mongoose connection, "closed" | "open"
  imgPc,       \* syncScryfallImages: "idle" | "find" | "card" | "fetch" | "done"
  skip,        \* syncScryfallImages: let skip
  imgCards,    \* syncScryfallImages: let cards, the documents of the batch
  cardIdx,     \* syncScryfallImages: position of the for loop in cards
  requests,    \* getScryfallImageUrl: requests sent for the current card
  eligible,    \* history: uuids with a scryfallId the query matched at pass start
  lookups,     \* history: <<uuid, result>> of every lookup of the pass
  peer,        \* a second uploadToMongo process: [pc, file, rlPos, buffer]
  ppPc,        \* parsePricesNDJSON: "idle" | "load" | "stream" | "done"
  knownUUIDs,  \* parsePrices: const knownUUIDs
  ppLine,      \* loadUUIDs: the line of parsedCards.ndjson read next
  ppEntry,     \* parsePricesNDJSON: the entry of the price feed handled next
  apiPc,       \* cards routes: "idle" | "search" | "detail"
  apiPrices,   \* cards routes: card.prices of the document found
  apiRes       \* cards routes: what the handler computed for the response

sortVars  == <<sortIn, sortRes>>
mergeVars == <<cardFile, priceFile, card, price, output, mergePc, iters>>
uploadVars == <<db, uploadFile, rlPos, buffer, total, uploadPc, runs,
                dbAtStart, supplied, clean, killedFrom, sent, conn>>
priceVars == <<argExisting, argIncoming, merged, remerged, applied>>
pipeVars == <<idFeed, priceFeed, stage, allIdentifiers, allPrices, parsedCards,
              parsedPrices, tempFiles, dbAfterFirst>>
dlVars == <<dlPc, dlFile, dlFailed, childExit, partialFiles>>
imgVars == <<imgPc, skip, imgCards, cardIdx, requests, eligible, lookups>>
raceVars == <<peer>>
loadVars == <<ppPc, knownUUIDs, ppLine, ppEntry>>
apiVars == <<apiPc, apiPrices, apiRes>>
vars == <<sortVars, mergeVars, uploadVars, priceVars, pipeVars, dlVars,
          imgVars, raceVars, loadVars, apiVars>>

\* what the actions of one stage leave alone
notSort == <<mergeVars, uploadVars, priceVars, pipeVars, dlVars, imgVars, raceVars, loadVars, apiVars>>
notMerge == <<sortVars, uploadVars, priceVars, pipeVars, dlVars, imgVars, raceVars, loadVars, apiVars>>
notUpload == <<sortVars, mergeVars, priceVars, pipeVars, dlVars, imgVars, raceVars, loadVars, apiVars>>
notPrice == <<sortVars, mergeVars, uploadVars, pipeVars, dlVars, imgVars, raceVars, loadVars, apiVars>>

----------------------------------------------------------------------------
(* Bounds of the model *)

\* longest file (in lines) given to sortNdjson
MaxLines == 3

\* longest parsedCards.ndjson (in lines) read by loadUUIDs
MaxLoadLines == 3

\* longest price feed (in entries) streamed after loadUUIDs
MaxLoadFeed == 2

\* days of stored price history of the card the routes are asked for
MaxApiDay == 9

\* longest file (in lines) on either side of the merge-join
MaxSide == 3

\* longest merged file (in lines) given to one upload
MaxFile == 3

\* uploads in one behaviour
MaxRuns == 2

\* longest upstream feed (in entries)
MaxFeed == 3

\* longest upstream feed (in entries) of a run with download failures
MaxRunFeed == 2

\* longest identifier feed (in entries) given to the filter alone
MaxIdFeed == 5

\* longest price feed (in entries) given to the extractor alone
MaxPriceFeed == 3

\* days that have a date key: "2024-01-01" .. "2024-01-0<MaxDay>"
MaxDay == 2

\* const batchSize = 500 of uploadNDJSON, scaled down so that files of
\* MaxFile lines fill a batch
batchSize == 2

\* const batchSize = 200 of syncScryfallImages, scaled down so that
\* collections of MaxDocs documents fill a batch
imageBatchSize == 2

\* documents in the collection when an enrichment pass starts
MaxDocs == 3

\* requests getScryfallImageUrl may send for one card before the server
\* stops answering 429
MaxRequests == 3

----------------------------------------------------------------------------
(* Strings as code-unit sequences *)

\* the uuid strings of the model: "1", "B", "a", "aB"
Ids == { <<49>>, <<66>>, <<97>>, <<97, 66>> }

\* obj.uuid of a parsed value that has no uuid property (JS undefined)
NoUuid == << 0 >>

\* String(undefined) = "undefined", the argument localeCompare coerces
UndefinedStr == << 117, 110, 100, 101, 102, 105, 110, 101, 100 >>

RECURSIVE LexLess(_, _)
\* lexicographic order of two integer sequences, a proper prefix first
LexLess(s, t) ==
  IF s = << >> THEN t # << >>
  ELSE IF t = << >> THEN FALSE
  ELSE IF Head(s) < Head(t) THEN TRUE
  ELSE IF Head(s) > Head(t) THEN FALSE
  ELSE LexLess(Tail(s), Tail(t))

\* primary collation weight of a code unit: punctuation, then digits, then
\* letters with upper and lower case alike
Primary(c) ==
  IF c \in 48..57 THEN 100 + (c - 48)
  ELSE IF c \in 65..90 THEN 200 + (c - 65)
  ELSE IF c \in 97..122 THEN 200 + (c - 97)
  ELSE c

\* tertiary (case) weight: lower case before upper case
Tertiary(c) == IF c \in 65..90 THEN 1 ELSE 0

\* a.localeCompare(b) for a string a: all primary weights first, then case
LocaleCompare(a, b) ==
  LET bs == IF b = NoUuid THEN UndefinedStr ELSE b
      pa == [i \in 1..Len(a) |-> Primary(a[i])]
      pb == [i \in 1..Len(bs) |-> Primary(bs[i])]
      ta == [i \in 1..Len(a) |-> Tertiary(a[i])]
      tb == [i \in 1..Len(bs) |-> Tertiary(bs[i])]
  IN IF LexLess(pa, pb) THEN -1
     ELSE IF LexLess(pb, pa) THEN 1
     ELSE IF LexLess(ta, tb) THEN -1
     ELSE IF LexLess(tb, ta) THEN 1
     ELSE 0

\* mutant of JsLess: the order of localeCompare instead of the order of <
JsLessLocale(a, b) ==
  IF a = NoUuid \/ b = NoUuid THEN FALSE ELSE LocaleCompare(a, b) < 0

\* a comparison that looks at the first code unit of each uuid only
JsLessFirstUnit(a, b) ==
  IF a = NoUuid \/ b = NoUuid \/ a = << >> \/ b = << >> THEN FALSE
  ELSE a[1] < b[1]

\* a < b of two uuid values as JavaScript evaluates it: code-unit order on two
\* strings; with undefined on either side the operands become NaN and the
\* comparison is false
JsLess(a, b) ==
  IF a = NoUuid \/ b = NoUuid THEN FALSE ELSE LexLess(a, b)

----------------------------------------------------------------------------
(* Lines and JSON values *)

\* marks an absent string property
Undef == "undefined"

\* marks an absent prices property
NoPrices == [absent |-> TRUE]

\* A line of an NDJSON file.  json = FALSE is text JSON.parse rejects.
\* fmt is the spelling of the text ("spaced": with insignificant white space),
\* which JSON.parse discards.  name stands for the required string fields of a
\* card (name, setCode, language), scryfallId for the optional ones.
Line(json, fmt, uuid, name, scryfallId, prices) ==
  [json |-> json, fmt |-> fmt, uuid |-> uuid, name |-> name,
   scryfallId |-> scryfallId, prices |-> prices]

BadLine == Line(FALSE, "compact", NoUuid, Undef, Undef, NoPrices)

\* a card line as parseCards writes it
CardLine(uuid, name) == Line(TRUE, "compact", uuid, name, Undef, NoPrices)

\* a price line as parsePrices writes it
PriceLine(uuid, prices) == Line(TRUE, "compact", uuid, Undef, Undef, prices)

\* does JSON.parse(line) return (TRUE) or throw (FALSE)
Parses(line) == line.json

\* JSON.parse(line): the value, without the spelling of the text
JsonParse(line) ==
  [uuid |-> line.uuid, name |-> line.name, scryfallId |-> line.scryfallId,
   prices |-> line.prices]

\* JSON.stringify(obj): the compact spelling; a property whose value is
\* undefined is left out, which is how an absent property is held here
JsonStringify(obj) ==
  Line(TRUE, "compact", obj.uuid, obj.name, obj.scryfallId, obj.prices)

----------------------------------------------------------------------------
(* sortNdjson *)

RECURSIVE InsertSorted(_, _)
\* x placed behind every element that does not compare greater than x
InsertSorted(x, s) ==
  IF s = << >> THEN << x >>
  ELSE IF LocaleCompare(x.uuid, Head(s).uuid) < 0 THEN << x >> \o s
  ELSE << Head(s) >> \o InsertSorted(x, Tail(s))

RECURSIVE SortLinesDedup(_)
\* mutant of SortLines: a sort that keeps one record per uuid
SortLinesDedup(s) ==
  IF s = << >> THEN << >>
  ELSE LET rest == SortLinesDedup(SubSeq(s, 1, Len(s) - 1))
       IN IF \E i \in 1..Len(rest) : rest[i].uuid = s[Len(s)].uuid
          THEN rest ELSE InsertSorted(s[Len(s)], rest)

RECURSIVE SortLines(_)
\* lines.sort((a, b) => a.uuid.localeCompare(b.uuid)): the stable sort
SortLines(s) ==
  IF s = << >> THEN << >>
  ELSE InsertSorted(s[Len(s)], SortLines(SubSeq(s, 1, Len(s) - 1)))

\* the comparator is called with every element but the first as receiver a;
\* a.uuid.localeCompare throws a TypeError when a has no uuid
CompareThrows(lines) == \E i \in 2..Len(lines) : lines[i].uuid = NoUuid

\* lines.push(JSON.parse(line)) for the lines that parse
ParsedLines(input) ==
  LET good == SelectSeq(input, Parses)
  IN [i \in 1..Len(good) |-> JsonParse(good[i])]

\* failed++ for the lines that do not parse
FailedCount(input) == Len(input) - Len(SelectSeq(input, Parses))

\* the records the array lines holds when lines.sort is called
Resident(input) == Len(ParsedLines(input))

\* mutant of SortNdjson: JSON.parse outside any try/catch
SortNdjsonNoCatch(input) ==
  LET lines == ParsedLines(input)
  IN IF CompareThrows(lines) \/ FailedCount(input) > 0
     THEN [status |-> "failed", out |-> << >>,
           total |-> Len(lines), failed |-> 0]
     ELSE LET sorted == SortLines(lines)
          IN [status |-> "done",
              out |-> [i \in 1..Len(sorted) |-> JsonStringify(sorted[i])],
              total |-> Len(lines), failed |-> 0]

\* sortNdjson(inputPath, outputPath): what it leaves behind
SortNdjson(input) ==
  LET lines == ParsedLines(input)
  IN IF CompareThrows(lines)
     THEN [status |-> "failed", out |-> << >>,
           total |-> Len(lines), failed |-> FailedCount(input)]
     ELSE LET sorted == SortLines(lines)
          IN [status |-> "done",
              out |-> [i \in 1..Len(sorted) |-> JsonStringify(sorted[i])],
              total |-> Len(lines), failed |-> FailedCount(input)]

IdleSort == [status |-> "idle", out |-> << >>, total |-> 0, failed |-> 0]

----------------------------------------------------------------------------
(* Price trees: vendor -> type -> finish -> date -> price *)

\* the date string "2024-01-0d"
DateKey(d) == << 50, 48, 50, 52, 45, 48, 49, 45, 48, 48 + d >>

\* the object {}
EmptyObj == << >>

\* the tree with the single price point (vendor, type, finish, date) -> val
Leaf(vendor, type, finish, date, val) ==
  vendor :> (type :> (finish :> (date :> val)))

----------------------------------------------------------------------------
(* mergeSortedNdjson *)

\* the spread the other way round: a prices field of cardObj is kept
SpreadCardWins(cardObj, prices) ==
  [uuid |-> cardObj.uuid, name |-> cardObj.name,
   scryfallId |-> cardObj.scryfallId,
   prices |-> IF cardObj.prices = NoPrices THEN prices ELSE cardObj.prices]

\* { ...cardObj, prices: priceObj.prices }
Spread(cardObj, prices) ==
  [uuid |-> cardObj.uuid, name |-> cardObj.name,
   scryfallId |-> cardObj.scryfallId, prices |-> prices]

CardDone == card > Len(cardFile)
PriceDone == price > Len(priceFile)

\* let card = await cardIter.next(); let price = await priceIter.next()
MergeStart ==
  /\ mergePc = "idle"
  /\ mergePc' = "loop"
  /\ card' = 1 /\ price' = 1 /\ output' = << >> /\ iters' = 0
  /\ UNCHANGED <<cardFile, priceFile, notMerge>>

\* a merge-join that also rejects when a line's uuid is below the uuid of the
\* line before it
MergeInputError ==
  /\ mergePc = "loop" /\ ~CardDone /\ ~PriceDone
  /\ \/ ~Parses(cardFile[card]) \/ ~Parses(priceFile[price])
     \/ card > 1 /\ JsLess(cardFile[card].uuid, cardFile[card - 1].uuid)
     \/ price > 1 /\ JsLess(priceFile[price].uuid, priceFile[price - 1].uuid)
  /\ mergePc' = "failed"
  /\ iters' = iters + 1
  /\ UNCHANGED <<cardFile, priceFile, card, price, output, notMerge>>

\* JSON.parse(card.value) or JSON.parse(price.value) throws: the promise is
\* rejected and the loop is left
MergeParseError ==
  /\ mergePc = "loop" /\ ~CardDone /\ ~PriceDone
  /\ ~Parses(cardFile[card]) \/ ~Parses(priceFile[price])
  /\ mergePc' = "failed"
  /\ iters' = iters + 1
  /\ UNCHANGED <<cardFile, priceFile, card, price, output, notMerge>>

\* if (cardObj.uuid < priceObj.uuid) card = await cardIter.next()
MergeAdvanceCard ==
  /\ mergePc = "loop" /\ ~CardDone /\ ~PriceDone
  /\ Parses(cardFile[card]) /\ Parses(priceFile[price])
  /\ JsLess(JsonParse(cardFile[card]).uuid, JsonParse(priceFile[price]).uuid)
  /\ card' = card + 1
  /\ iters' = iters + 1
  /\ UNCHANGED <<cardFile, priceFile, price, output, mergePc, notMerge>>

\* an else-if branch that keeps the pending price record
MergeAdvancePriceStays ==
  /\ mergePc = "loop" /\ ~CardDone /\ ~PriceDone
  /\ Parses(cardFile[card]) /\ Parses(priceFile[price])
  /\ ~JsLess(JsonParse(cardFile[card]).uuid, JsonParse(priceFile[price]).uuid)
  /\ JsLess(JsonParse(priceFile[price]).uuid, JsonParse(cardFile[card]).uuid)
  /\ iters' = iters + 1
  /\ UNCHANGED <<cardFile, priceFile, card, price, output, mergePc, notMerge>>

\* else if (priceObj.uuid < cardObj.uuid) price = await priceIter.next()
MergeAdvancePrice ==
  /\ mergePc = "loop" /\ ~CardDone /\ ~PriceDone
  /\ Parses(cardFile[card]) /\ Parses(priceFile[price])
  /\ ~JsLess(JsonParse(cardFile[card]).uuid, JsonParse(priceFile[price]).uuid)
  /\ JsLess(JsonParse(priceFile[price]).uuid, JsonParse(cardFile[card]).uuid)
  /\ price' = price + 1
  /\ iters' = iters + 1
  /\ UNCHANGED <<cardFile, priceFile, card, output, mergePc, notMerge>>

\* the line the else branch writes
MergedLine(cardObj, priceObj) == JsonStringify(Spread(cardObj, priceObj.prices))

\* an else branch that keeps the pending card record for the next price record
MergeWriteOneSide ==
  /\ mergePc = "loop" /\ ~CardDone /\ ~PriceDone
  /\ Parses(cardFile[card]) /\ Parses(priceFile[price])
  /\ ~JsLess(JsonParse(cardFile[card]).uuid, JsonParse(priceFile[price]).uuid)
  /\ ~JsLess(JsonParse(priceFile[price]).uuid, JsonParse(cardFile[card]).uuid)
  /\ output' = Append(output, MergedLine(JsonParse(cardFile[card]),
                                         JsonParse(priceFile[price])))
  /\ price' = price + 1
  /\ iters' = iters + 1
  /\ UNCHANGED <<cardFile, priceFile, card, mergePc, notMerge>>

\* else { output.write(...); advance both }
MergeWrite ==
  /\ mergePc = "loop" /\ ~CardDone /\ ~PriceDone
  /\ Parses(cardFile[card]) /\ Parses(priceFile[price])
  /\ ~JsLess(JsonParse(cardFile[card]).uuid, JsonParse(priceFile[price]).uuid)
  /\ ~JsLess(JsonParse(priceFile[price]).uuid, JsonParse(cardFile[card]).uuid)
  /\ output' = Append(output, MergedLine(JsonParse(cardFile[card]),
                                         JsonParse(priceFile[price])))
  /\ card' = card + 1 /\ price' = price + 1
  /\ iters' = iters + 1
  /\ UNCHANGED <<cardFile, priceFile, mergePc, notMerge>>

\* an end of the loop that writes the card records not yet read
MergeFinishOuter ==
  /\ mergePc = "loop"
  /\ CardDone \/ PriceDone
  /\ mergePc' = "done"
  /\ output' = output \o SubSeq(cardFile, card, Len(cardFile))
  /\ UNCHANGED <<cardFile, priceFile, card, price, iters, notMerge>>

\* the loop condition fails: output.end(); await waitForStreamFinish(output)
MergeFinish ==
  /\ mergePc = "loop"
  /\ CardDone \/ PriceDone
  /\ mergePc' = "done"
  /\ UNCHANGED <<cardFile, priceFile, card, price, output, iters, notMerge>>

MergeStep ==
  \/ MergeParseError
  \/ MergeAdvanceCard
  \/ MergeAdvancePrice
  \/ MergeWrite
  \/ MergeFinish

----------------------------------------------------------------------------
(* uploadToMongo: mergePriceObjects *)

Vendors == {"tcgplayer", "cardkingdom", "cardmarket"}
Types == {"retail", "buylist"}
Finishes == {"normal", "foil", "etched"}
Dates == { DateKey(d) : d \in 1..MaxDay }

\* a value that is undefined or null where an object is expected
IsNullish(x) == x = NoPrices

\* the keys a for...in loop over x visits (none for undefined or null)
Keys(x) == IF IsNullish(x) THEN {} ELSE DOMAIN x

\* JSON.parse(JSON.stringify(existing || {})): trees hold JSON numbers only,
\* which the round trip returns unchanged
JsonClone(existing) == IF IsNullish(existing) THEN EmptyObj ELSE existing

\* mutant of MergeDates: result[vendor][type][finish] = incoming...[finish]
MergeDatesReplace(res, inc) == inc

\* innermost loop: result[vendor][type][finish][date] = incoming...[date]
MergeDates(res, inc) ==
  [d \in DOMAIN res \cup DOMAIN inc |-> IF d \in DOMAIN inc THEN inc[d] ELSE res[d]]

\* loop over finish: if (!result[vendor][type][finish]) ... = {}
MergeFinishes(res, inc) ==
  [f \in DOMAIN res \cup DOMAIN inc |->
     IF f \notin DOMAIN inc THEN res[f]
     ELSE MergeDates(IF f \in DOMAIN res THEN res[f] ELSE EmptyObj, inc[f])]

\* loop over type: if (!result[vendor][type]) result[vendor][type] = {}
MergeTypes(res, inc) ==
  [t \in DOMAIN res \cup DOMAIN inc |->
     IF t \notin DOMAIN inc THEN res[t]
     ELSE MergeFinishes(IF t \in DOMAIN res THEN res[t] ELSE EmptyObj, inc[t])]

\* mutant of mergePriceObjects: the clone of existing, without the loops
mergeKeepsExisting(existing, incoming) == JsonClone(existing)

\* mutant of mergePriceObjects: { ...existing, ...incoming }, a shallow merge
ShallowMergePriceObjects(existing, incoming) ==
  LET result == JsonClone(existing)
  IN [v \in DOMAIN result \cup Keys(incoming) |->
        IF v \in Keys(incoming) THEN incoming[v] ELSE result[v]]

\* mergePriceObjects(existing, incoming)
mergePriceObjects(existing, incoming) ==
  LET result == JsonClone(existing)
  IN [v \in DOMAIN result \cup Keys(incoming) |->
        IF v \notin Keys(incoming) THEN result[v]
        ELSE MergeTypes(IF v \in DOMAIN result THEN result[v] ELSE EmptyObj,
                        incoming[v])]

----------------------------------------------------------------------------
(* uploadToMongo: the cards collection *)

\* default of imageUrl in cardSchema
Placeholder == "/images/PlaceHolder.png"

\* positions of the documents the filter { uuid } matches
Matches(coll, uuid) == { i \in DOMAIN coll : coll[i].uuid = uuid }

\* Card.findOne({ uuid }, { prices: 1 }).lean() followed by ?.prices
ExistingPrices(coll, uuid) ==
  IF Matches(coll, uuid) = {} THEN NoPrices
  ELSE coll[CHOOSE i \in Matches(coll, uuid) :
              \A j \in Matches(coll, uuid) : i <= j].prices

\* mutant of SetFields: the stored document is replaced and gets the defaults
ReplaceFields(doc, set) ==
  [uuid |-> set.uuid, name |-> set.name, scryfallId |-> set.scryfallId,
   prices |-> set.prices, imageUrl |-> Placeholder]

\* $set: the properties the update carries replace the stored ones
SetFields(doc, set) ==
  [uuid |-> set.uuid,
   name |-> IF set.name = Undef THEN doc.name ELSE set.name,
   scryfallId |-> IF set.scryfallId = Undef THEN doc.scryfallId ELSE set.scryfallId,
   prices |-> set.prices,
   imageUrl |-> doc.imageUrl]

\* the document an upsert inserts: the filter, the $set and the schema default
NewDoc(op) ==
  [uuid |-> op.filter, name |-> op.set.name, scryfallId |-> op.set.scryfallId,
   prices |-> op.set.prices, imageUrl |-> Placeholder]

\* mutant of UpdateOne: insertOne for every operation
InsertAlways(coll, op) == Append(coll, NewDoc(op))

\* mutant of UpdateOne: identity fields go to $setOnInsert, only prices to $set
UpdateOneSetOnInsert(coll, op) ==
  IF Matches(coll, op.filter) = {} THEN Append(coll, NewDoc(op))
  ELSE LET i == CHOOSE k \in Matches(coll, op.filter) :
                  \A j \in Matches(coll, op.filter) : k <= j
       IN [coll EXCEPT ![i] = [@ EXCEPT !.prices = op.set.prices]]

\* updateOne: { filter: { uuid }, update: { $set: updatedCard }, upsert: true }
UpdateOne(coll, op) ==
  IF Matches(coll, op.filter) = {} THEN Append(coll, NewDoc(op))
  ELSE LET i == CHOOSE k \in Matches(coll, op.filter) :
                  \A j \in Matches(coll, op.filter) : k <= j
       IN [coll EXCEPT ![i] = SetFields(@, op.set)]

RECURSIVE BulkWrite(_, _)
\* Card.bulkWrite(buffer): the operations applied in order
BulkWrite(coll, ops) ==
  IF ops = << >> THEN coll
  ELSE BulkWrite(UpdateOne(coll, Head(ops)), Tail(ops))

----------------------------------------------------------------------------
(* uploadToMongo: uploadNDJSON *)

\* the operation pushed for one line, given the collection findOne reads
OpFor(coll, cardObj) ==
  [filter |-> cardObj.uuid,
   set |-> Spread(cardObj,
                  mergePriceObjects(ExistingPrices(coll, cardObj.uuid),
                                    cardObj.prices))]

\* the price points (vendor, type, finish, date) of a tree
Entries(tree) ==
  IF IsNullish(tree) THEN {}
  ELSE { e \in Vendors \X Types \X Finishes \X Dates :
           /\ e[1] \in DOMAIN tree
           /\ e[2] \in DOMAIN tree[e[1]]
           /\ e[3] \in DOMAIN tree[e[1]][e[2]]
           /\ e[4] \in DOMAIN tree[e[1]][e[2]][e[3]] }

\* the price of a price point of a tree
At(tree, e) == tree[e[1]][e[2]][e[3]][e[4]]

\* history: the price points of one record, noted as last read
Note(cardObj) ==
  LET new == { <<cardObj.uuid>> \o e : e \in Entries(cardObj.prices) }
  IN [k \in DOMAIN supplied \cup new |->
        IF k \in new THEN At(cardObj.prices, SubSeq(k, 2, 5)) ELSE supplied[k]]

\* a run of uploadNDJSON(filePath) begins
BeginUpload(file) ==
  /\ uploadFile' = file
  /\ rlPos' = 1 /\ buffer' = << >> /\ total' = 0
  /\ uploadPc' = "loop"
  /\ runs' = runs + 1
  /\ dbAtStart' = db
  /\ killedFrom' = << >>
  /\ sent' = << >> /\ conn' = "open"
  /\ UNCHANGED <<db, supplied, clean>>

\* JSON.parse(line) throws: the loop is left, the catch handler logs
UploadParseError ==
  /\ uploadPc = "loop" /\ rlPos <= Len(uploadFile)
  /\ ~Parses(uploadFile[rlPos])
  /\ uploadPc' = "failed"
  /\ clean' = FALSE
  /\ UNCHANGED <<db, uploadFile, rlPos, buffer, total, runs, dbAtStart, supplied,
                 killedFrom, sent, conn>>
  /\ UNCHANGED notUpload

\* await Card.findOne(...) rejects with a database error: the loop is left,
\* the catch handler logs
UploadLookupError ==
  /\ uploadPc = "loop" /\ rlPos <= Len(uploadFile)
  /\ Parses(uploadFile[rlPos])
  /\ uploadPc' = "failed"
  /\ clean' = FALSE
  /\ UNCHANGED <<db, uploadFile, rlPos, buffer, total, runs, dbAtStart, supplied,
                 killedFrom, sent, conn>>
  /\ UNCHANGED notUpload

\* an upload loop without the test buffer.length >= batchSize
UploadPushAlways ==
  /\ uploadPc = "loop" /\ rlPos <= Len(uploadFile)
  /\ Parses(uploadFile[rlPos])
  /\ buffer' = Append(buffer, OpFor(db, JsonParse(uploadFile[rlPos])))
  /\ supplied' = Note(JsonParse(uploadFile[rlPos]))
  /\ rlPos' = rlPos + 1
  /\ UNCHANGED <<db, uploadFile, total, uploadPc, runs, dbAtStart, clean,
                 killedFrom, sent, conn>>
  /\ UNCHANGED notUpload

\* one line: findOne, mergePriceObjects, buffer.push; the batch is not full
UploadPush ==
  /\ uploadPc = "loop" /\ rlPos <= Len(uploadFile)
  /\ Parses(uploadFile[rlPos])
  /\ Len(buffer) + 1 < batchSize
  /\ buffer' = Append(buffer, OpFor(db, JsonParse(uploadFile[rlPos])))
  /\ supplied' = Note(JsonParse(uploadFile[rlPos]))
  /\ rlPos' = rlPos + 1
  /\ UNCHANGED <<db, uploadFile, total, uploadPc, runs, dbAtStart, clean,
                 killedFrom, sent, conn>>
  /\ UNCHANGED notUpload

\* one line, and buffer.length >= batchSize: bulkWrite, total += , buffer.length = 0
UploadPushFlush ==
  /\ uploadPc = "loop" /\ rlPos <= Len(uploadFile)
  /\ Parses(uploadFile[rlPos])
  /\ Len(buffer) + 1 >= batchSize
  /\ db' = BulkWrite(db, Append(buffer, OpFor(db, JsonParse(uploadFile[rlPos]))))
  /\ total' = total + Len(buffer) + 1
  /\ buffer' = << >>
  /\ supplied' = Note(JsonParse(uploadFile[rlPos]))
  /\ rlPos' = rlPos + 1
  /\ sent' = sent \o Append(buffer, OpFor(db, JsonParse(uploadFile[rlPos])))
  /\ UNCHANGED <<uploadFile, uploadPc, runs, dbAtStart, clean, killedFrom, conn>>
  /\ UNCHANGED notUpload

\* an end of input without the flush of the remaining operations
UploadEndNoFlush ==
  /\ uploadPc = "loop" /\ rlPos > Len(uploadFile)
  /\ uploadPc' = "done"
  /\ conn' = "closed"
  /\ UNCHANGED <<db, uploadFile, rlPos, buffer, total, runs, dbAtStart, supplied,
                 clean, killedFrom, sent>>
  /\ UNCHANGED notUpload

\* end of input: flush the remaining operations, log, mongoose.disconnect()
UploadEnd ==
  /\ uploadPc = "loop" /\ rlPos > Len(uploadFile)
  /\ db' = IF Len(buffer) > 0 THEN BulkWrite(db, buffer) ELSE db
  /\ total' = IF Len(buffer) > 0 THEN total + Len(buffer) ELSE total
  /\ uploadPc' = "done"
  /\ sent' = sent \o buffer
  /\ conn' = "closed"
  /\ UNCHANGED <<uploadFile, rlPos, buffer, runs, dbAtStart, supplied, clean, killedFrom>>
  /\ UNCHANGED notUpload

\* the upload process is killed between two lines: what it has flushed is in
\* the collection, what it has buffered is lost
UploadKill ==
  /\ uploadPc = "loop"
  /\ killedFrom = << >>
  /\ uploadPc' = "killed"
  /\ buffer' = << >>
  /\ killedFrom' = << dbAtStart >>
  /\ conn' = "closed"
  /\ UNCHANGED <<db, uploadFile, rlPos, total, runs, dbAtStart, supplied, clean, sent>>
  /\ UNCHANGED notUpload

\* the pipeline is run again from the start on the same inputs, which gives
\* the same merged file: uploadNDJSON begins again
UploadRerun ==
  /\ uploadPc = "killed"
  /\ rlPos' = 1 /\ buffer' = << >> /\ total' = 0
  /\ uploadPc' = "loop"
  /\ runs' = runs + 1
  /\ dbAtStart' = db
  /\ sent' = << >> /\ conn' = "open"
  /\ UNCHANGED <<db, uploadFile, supplied, clean, killedFrom>>
  /\ UNCHANGED notUpload

\* a second process runs uploadNDJSON on its own merged file against the same
\* collection
PeerStart(file) ==
  /\ peer.pc = "idle"
  /\ peer' = [pc |-> "loop", file |-> file, rlPos |-> 1, buffer |-> << >>]
  /\ UNCHANGED <<sortVars, mergeVars, uploadVars, priceVars, pipeVars, dlVars, imgVars, loadVars, apiVars>>

\* the second process, one line: findOne, mergePriceObjects, buffer.push
PeerPush ==
  /\ peer.pc = "loop" /\ peer.rlPos <= Len(peer.file)
  /\ Len(peer.buffer) + 1 < batchSize
  /\ peer' = [peer EXCEPT
                !.buffer = Append(@, OpFor(db, JsonParse(peer.file[peer.rlPos]))),
                !.rlPos = @ + 1]
  /\ UNCHANGED <<sortVars, mergeVars, uploadVars, priceVars, pipeVars, dlVars, imgVars, loadVars, apiVars>>

\* the second process, one line that fills the batch: bulkWrite
PeerPushFlush ==
  /\ peer.pc = "loop" /\ peer.rlPos <= Len(peer.file)
  /\ Len(peer.buffer) + 1 >= batchSize
  /\ db' = BulkWrite(db, Append(peer.buffer,
                                OpFor(db, JsonParse(peer.file[peer.rlPos]))))
  /\ peer' = [peer EXCEPT !.buffer = << >>, !.rlPos = @ + 1]
  /\ UNCHANGED <<uploadFile, rlPos, buffer, total, uploadPc, runs, dbAtStart,
                 supplied, clean, killedFrom, sent, conn>>
  /\ UNCHANGED <<sortVars, mergeVars, priceVars, pipeVars, dlVars, imgVars, loadVars, apiVars>>

\* the second process, end of input: flush the remaining operations
PeerEnd ==
  /\ peer.pc = "loop" /\ peer.rlPos > Len(peer.file)
  /\ db' = IF Len(peer.buffer) > 0 THEN BulkWrite(db, peer.buffer) ELSE db
  /\ peer' = [peer EXCEPT !.pc = "done"]
  /\ UNCHANGED <<uploadFile, rlPos, buffer, total, uploadPc, runs, dbAtStart,
                 supplied, clean, killedFrom, sent, conn>>
  /\ UNCHANGED <<sortVars, mergeVars, priceVars, pipeVars, dlVars, imgVars, loadVars, apiVars>>

RECURSIVE UploadFrom(_, _, _, _)
\* uploadNDJSON from line pos on, with buf buffered, run to its end without
\* an interruption: the collection it leaves
UploadFrom(coll, file, pos, buf) ==
  IF pos > Len(file)
  THEN IF Len(buf) > 0 THEN BulkWrite(coll, buf) ELSE coll
  ELSE IF ~Parses(file[pos]) THEN coll
  ELSE LET ops == Append(buf, OpFor(coll, JsonParse(file[pos])))
       IN IF Len(ops) >= batchSize
          THEN UploadFrom(BulkWrite(coll, ops), file, pos + 1, << >>)
          ELSE UploadFrom(coll, file, pos + 1, ops)

\* the collection an uninterrupted uploadNDJSON(file) leaves
UploadWhole(coll, file) == UploadFrom(coll, file, 1, << >>)

UploadStep ==
  \/ UploadParseError
  \/ UploadLookupError
  \/ UploadPush
  \/ UploadPushFlush
  \/ UploadEnd

----------------------------------------------------------------------------
(* syncScryfallImages *)

\* a property stored with the value null
JsNull == "<null>"

\* const PLACEHOLDER_IMAGE
PLACEHOLDER_IMAGE == Placeholder

\* the image URL Scryfall holds for a card
ImageUrlOf(scryfallId) == "img:" \o scryfallId

\* !x for a string property: absent, null and "" are falsy
FalsyProp(x) == x \in {Undef, JsNull, ""}

\* const query: imageUrl missing, null or the placeholder, and scryfallId
\* present and not null
QueryMatches(doc) ==
  /\ doc.imageUrl \in {Undef, JsNull, PLACEHOLDER_IMAGE}
  /\ doc.scryfallId \notin {Undef, JsNull}

RECURSIVE Filter(_)
\* Card.find(query): the matching documents in the order of the collection
Filter(coll) ==
  IF coll = << >> THEN << >>
  ELSE IF QueryMatches(Head(coll)) THEN <<Head(coll)>> \o Filter(Tail(coll))
  ELSE Filter(Tail(coll))

\* .skip(n).limit(m) of a result list
SkipLimit(list, n, m) ==
  SubSeq(list, n + 1, IF n + m < Len(list) THEN n + m ELSE Len(list))

\* card.imageUrl = url; await card.save(): the document of the card gets url
Save(coll, doc, url) ==
  [i \in DOMAIN coll |->
     IF coll[i].uuid = doc.uuid THEN [coll[i] EXCEPT !.imageUrl = url]
     ELSE coll[i]]

\* main: mongoose.connect, the query is built, skip = 0
ImgStart ==
  /\ imgPc = "idle"
  /\ imgPc' = "find"
  /\ skip' = 0
  /\ eligible' = { db[i].uuid : i \in { j \in DOMAIN db :
                         QueryMatches(db[j]) /\ db[j].scryfallId # "" } }
  /\ lookups' = << >>
  /\ UNCHANGED <<imgCards, cardIdx, requests>>
  /\ UNCHANGED <<sortVars, mergeVars, uploadVars, priceVars, pipeVars, dlVars, raceVars, loadVars, apiVars>>

\* cards = await Card.find(query).skip(skip).limit(batchSize)
ImgFind ==
  /\ imgPc = "find"
  /\ imgCards' = SkipLimit(Filter(db), skip, imageBatchSize)
  /\ cardIdx' = 1
  /\ imgPc' = "card"
  /\ UNCHANGED <<skip, requests, eligible, lookups>>
  /\ UNCHANGED <<sortVars, mergeVars, uploadVars, priceVars, pipeVars, dlVars, raceVars, loadVars, apiVars>>

\* for (const card of cards): the next card, up to the call of
\* getScryfallImageUrl; after the last card skip += batchSize and the
\* do-while test, then mongoose.disconnect and process.exit(0)
ImgCard ==
  /\ imgPc = "card"
  /\ IF cardIdx > Len(imgCards)
     THEN /\ skip' = skip + imageBatchSize
          /\ imgPc' = IF Len(imgCards) = imageBatchSize THEN "find" ELSE "done"
          /\ UNCHANGED <<cardIdx, requests>>
     ELSE IF FalsyProp(imgCards[cardIdx].scryfallId)
     THEN /\ cardIdx' = cardIdx + 1
          /\ UNCHANGED <<skip, imgPc, requests>>
     ELSE IF FalsyProp(imgCards[cardIdx].imageUrl)
               \/ imgCards[cardIdx].imageUrl = PLACEHOLDER_IMAGE
     THEN /\ imgPc' = "fetch"
          /\ requests' = 0
          /\ UNCHANGED <<skip, cardIdx>>
     ELSE /\ cardIdx' = cardIdx + 1
          /\ UNCHANGED <<skip, imgPc, requests>>
  /\ UNCHANGED <<imgCards, eligible, lookups>>
  /\ UNCHANGED <<sortVars, mergeVars, uploadVars, priceVars, pipeVars, dlVars, raceVars, loadVars, apiVars>>

\* getScryfallImageUrl: res.status === 429: wait 2 seconds, then
\* return getScryfallImageUrl(scryfallId)
ImgRateLimited ==
  /\ imgPc = "fetch"
  /\ requests + 1 < MaxRequests
  /\ requests' = requests + 1
  /\ UNCHANGED <<imgPc, skip, imgCards, cardIdx, eligible, lookups>>
  /\ UNCHANGED <<sortVars, mergeVars, uploadVars, priceVars, pipeVars, dlVars, raceVars, loadVars, apiVars>>

\* getScryfallImageUrl returns the URL (found = TRUE) or null (!res.ok, no
\* image_uris, fetch threw); main saves the URL or the placeholder and waits
ImgAnswer ==
  /\ imgPc = "fetch"
  /\ \E found \in BOOLEAN :
       LET doc == imgCards[cardIdx]
           url == IF found THEN ImageUrlOf(doc.scryfallId) ELSE JsNull
       IN /\ db' = Save(db, doc, IF found THEN url ELSE PLACEHOLDER_IMAGE)
          /\ lookups' = Append(lookups, <<doc.uuid, url>>)
  /\ requests' = requests + 1
  /\ cardIdx' = cardIdx + 1
  /\ imgPc' = "card"
  /\ UNCHANGED <<skip, imgCards, eligible>>
  /\ UNCHANGED <<uploadFile, rlPos, buffer, total, uploadPc, runs, dbAtStart,
                 supplied, clean, killedFrom, sent, conn>>
  /\ UNCHANGED <<sortVars, mergeVars, priceVars, pipeVars, dlVars, raceVars, loadVars, apiVars>>

ImgStep ==
  \/ ImgStart
  \/ ImgFind
  \/ ImgCard
  \/ ImgRateLimited
  \/ ImgAnswer

----------------------------------------------------------------------------
(* parseCards and parsePrices *)

\* an entry of the data object of AllIdentifiers.json
IdEntry(uuid, name, setCode, language, scryfallId) ==
  [uuid |-> uuid, name |-> name, setCode |-> setCode, language |-> language,
   scryfallId |-> scryfallId]

\* an identifier that is absent or empty is falsy
FalsyId(x) == x = NoUuid \/ x = << >>

\* a string property that is absent or empty is falsy
FalsyStr(x) == x = Undef \/ x = ""

\* the filter without its test of setCode
KeepsCardNoSetCode(value) ==
  /\ value.language = "English"
  /\ ~FalsyId(value.uuid) /\ ~FalsyStr(value.name)

\* the pipeline.on('data') handler of parseCards: does it write the card
KeepsCard(value) ==
  /\ value.language = "English"
  /\ ~FalsyId(value.uuid) /\ ~FalsyStr(value.name) /\ ~FalsyStr(value.setCode)

\* the line the handler writes: the minimal card object
MinimalCard(value) ==
  Line(TRUE, "compact", value.uuid, value.name, value.scryfallId, NoPrices)

\* parseCardsNDJSON: the lines of parsedCards.ndjson
ParseCards(feed) ==
  LET kept == SelectSeq(feed, KeepsCard)
  IN [i \in 1..Len(kept) |-> MinimalCard(kept[i])]

\* loadUUIDs: the uuids of the lines of parsedCards.ndjson that parse
LoadUUIDs(cards) ==
  { cards[i].uuid : i \in { k \in DOMAIN cards :
                             Parses(cards[k]) /\ ~FalsyId(JsonParse(cards[k]).uuid) } }

\* /^\d{4}-\d{2}-\d{2}$/.test(d)
IsDateKey(d) ==
  /\ Len(d) = 10
  /\ \A i \in {1, 2, 3, 4, 6, 7, 9, 10} : d[i] \in 48..57
  /\ d[5] = 45 /\ d[8] = 45

\* the greatest key of any form
getGreatestKey(obj) ==
  IF DOMAIN obj = {} THEN << >>
  ELSE CHOOSE d \in DOMAIN obj : \A o \in DOMAIN obj : o = d \/ LexLess(o, d)

\* marks the null getMostRecentDate returns
NoDate == << >>

\* getMostRecentDate: dates.sort().reverse()[0] ?? null
getMostRecentDate(obj) ==
  LET dates == { d \in DOMAIN obj : IsDateKey(d) }
  IN IF dates = {} THEN NoDate
     ELSE CHOOSE d \in dates : \A o \in dates : o = d \/ LexLess(o, d)

SupportedVendors == {"tcgplayer", "cardkingdom", "cardmarket"}

\* the finishes of one vendor and type that yield a most recent date
KeptFinishes(typeData) ==
  { f \in Finishes \cap Keys(typeData) : getMostRecentDate(typeData[f]) # NoDate }

\* the types of one vendor that yield a price
KeptTypes(vendorData) ==
  { t \in Types \cap Keys(vendorData) : KeptFinishes(vendorData[t]) # {} }

\* the vendors that yield a price
KeptVendors(paper) ==
  { v \in SupportedVendors \cap Keys(paper) : KeptTypes(paper[v]) # {} }

\* pricesToday of the pipeline.on('data') handler of parsePrices
PricesToday(paper) ==
  [v \in KeptVendors(paper) |->
    [t \in KeptTypes(paper[v]) |->
      [f \in KeptFinishes(paper[v][t]) |->
        LET d == getMostRecentDate(paper[v][t][f])
        IN d :> paper[v][t][f][d]]]]

\* the test of the handler without its look-up in knownUUIDs
KeepsPricesOfAnyKey(known, entry) ==
  DOMAIN PricesToday(entry.paper) # {}

\* does the handler write a line for the entry
KeepsPrices(known, entry) ==
  entry.key \in known /\ DOMAIN PricesToday(entry.paper) # {}

\* parsePricesNDJSON: the lines of parsedPrices.ndjson
ParsePrices(cards, feed) ==
  LET known == LoadUUIDs(cards)
      kept == SelectSeq(feed, LAMBDA e : KeepsPrices(known, e))
  IN [i \in 1..Len(kept) |-> PriceLine(kept[i].key, PricesToday(kept[i].paper))]

----------------------------------------------------------------------------
(* parsePrices, step by step: loadUUIDs line by line, then the 'data' handler
   entry by entry *)

\* what the step actions leave alone in the pipeline's files
ppFrame == <<idFeed, priceFeed, stage, allIdentifiers, allPrices, parsedCards,
             tempFiles, dbAfterFirst>>

\* parsePricesNDJSON is called: loadUUIDs opens parsedCards.ndjson
PpStart ==
  /\ ppPc = "idle"
  /\ ppPc' = "load"
  /\ knownUUIDs' = {}
  /\ ppLine' = 1
  /\ UNCHANGED <<ppEntry, parsedPrices, ppFrame>>
  /\ UNCHANGED <<sortVars, mergeVars, uploadVars, priceVars, dlVars, imgVars, raceVars, apiVars>>

\* loadUUIDs, one turn of for await (const line of rl): a line that parses
\* and holds a truthy uuid adds it to knownUUIDs, any other line is passed
PpLoadLine ==
  /\ ppPc = "load"
  /\ ppLine <= Len(parsedCards)
  /\ knownUUIDs' =
       IF Parses(parsedCards[ppLine]) /\ ~FalsyId(JsonParse(parsedCards[ppLine]).uuid)
       THEN knownUUIDs \cup {JsonParse(parsedCards[ppLine]).uuid}
       ELSE knownUUIDs
  /\ ppLine' = ppLine + 1
  /\ UNCHANGED <<ppPc, ppEntry, parsedPrices, ppFrame>>
  /\ UNCHANGED <<sortVars, mergeVars, uploadVars, priceVars, dlVars, imgVars, raceVars, apiVars>>

\* mutant of PpLoaded: loadUUIDs(cardsPath) without await, the writer and
\* the price pipeline are created while lines are still to be read
PpLoadedEarly ==
  /\ ppPc = "load"
  /\ ppPc' = "stream"
  /\ ppEntry' = 1
  /\ parsedPrices' = << >>
  /\ UNCHANGED <<knownUUIDs, ppLine, ppFrame>>
  /\ UNCHANGED <<sortVars, mergeVars, uploadVars, priceVars, dlVars, imgVars, raceVars, apiVars>>

\* await loadUUIDs(cardsPath) returns at the end of the file; the writer and
\* the price pipeline are created
PpLoaded ==
  /\ ppPc = "load"
  /\ ppLine > Len(parsedCards)
  /\ ppPc' = "stream"
  /\ ppEntry' = 1
  /\ parsedPrices' = << >>
  /\ UNCHANGED <<knownUUIDs, ppLine, ppFrame>>
  /\ UNCHANGED <<sortVars, mergeVars, uploadVars, priceVars, dlVars, imgVars, raceVars, apiVars>>

\* pipeline.on('data'): an entry whose key is not in knownUUIDs is passed;
\* any other is written if pricesToday holds a vendor
PpData ==
  /\ ppPc = "stream"
  /\ ppEntry <= Len(allPrices)
  /\ parsedPrices' =
       IF KeepsPrices(knownUUIDs, allPrices[ppEntry])
       THEN Append(parsedPrices, PriceLine(allPrices[ppEntry].key,
                                           PricesToday(allPrices[ppEntry].paper)))
       ELSE parsedPrices
  /\ ppEntry' = ppEntry + 1
  /\ UNCHANGED <<ppPc, knownUUIDs, ppLine, ppFrame>>
  /\ UNCHANGED <<sortVars, mergeVars, uploadVars, priceVars, dlVars, imgVars, raceVars, apiVars>>

\* pipeline.on('end'): writer.end()
PpEnd ==
  /\ ppPc = "stream"
  /\ ppEntry > Len(allPrices)
  /\ ppPc' = "done"
  /\ UNCHANGED <<knownUUIDs, ppLine, ppEntry, parsedPrices, ppFrame>>
  /\ UNCHANGED <<sortVars, mergeVars, uploadVars, priceVars, dlVars, imgVars, raceVars, apiVars>>

----------------------------------------------------------------------------
(* Cards API routes: GET /cards (search) and GET /cards/:uuid (detail) *)

\* the value null among prices and averages; a price is never negative
NullPrice == -1

\* const vendorNames
vendorNames == <<"tcgplayer", "cardkingdom", "cardmarket">>

\* ['retail', 'buylist']
typeNames == <<"retail", "buylist">>

\* obj?.[key]: undefined for a missing object or key
Get(obj, key) == IF key \in Keys(obj) THEN obj[key] ELSE NoPrices

\* Object.keys(...).sort(): ascending by code units
RECURSIVE SortKeys(_)
SortKeys(keys) ==
  IF keys = {} THEN << >>
  ELSE LET least == CHOOSE k \in keys : \A o \in keys : o = k \/ LexLess(k, o)
       IN <<least>> \o SortKeys(keys \ {least})

\* typeof value === 'number' ? value : null (stored trees hold JSON numbers
\* and null, no $numberInt or $numberDouble objects)
NumberOf(value) == IF value = NullPrice THEN NullPrice ELSE value

\* getLatestPrice(priceObj, type) of the search route
getLatestPrice(priceObj, type) ==
  LET normal == Get(Get(priceObj, type), "normal")
      dates == SortKeys(Keys(normal))
  IN IF IsNullish(normal) \/ Len(dates) = 0 THEN NullPrice
     ELSE NumberOf(normal[dates[Len(dates)]])

\* mutant of getWeekAgoPrice: dates.length < 8, dates[dates.length - 8]
getWeekAgoPriceEightBack(priceObj, type) ==
  LET normal == Get(Get(priceObj, type), "normal")
      dates == SortKeys(Keys(normal))
  IN IF IsNullish(normal) \/ Len(dates) < 8 THEN NullPrice
     ELSE NumberOf(normal[dates[Len(dates) - 7]])

\* getWeekAgoPrice(priceObj, type): dates[dates.length - 7] of the sorted
\* keys, null below 7 dates; index k of JS is position k + 1 here
getWeekAgoPrice(priceObj, type) ==
  LET normal == Get(Get(priceObj, type), "normal")
      dates == SortKeys(Keys(normal))
  IN IF IsNullish(normal) \/ Len(dates) < 7 THEN NullPrice
     ELSE NumberOf(normal[dates[(Len(dates) - 7) + 1]])

\* one element of retailChanges / buylistChanges before the filter: the
\* change ((latest - weekAgo) / weekAgo) * 100 as the fraction num / den,
\* reported only for two numbers and weekAgo !== 0
VendorChange(prices, vendor, type) ==
  LET latest == getLatestPrice(Get(prices, vendor), type)
      weekAgo == getWeekAgoPrice(Get(prices, vendor), type)
      reported == latest # NullPrice /\ weekAgo # NullPrice /\ weekAgo # 0
  IN [latest |-> latest, weekAgo |-> weekAgo, reported |-> reported,
      num |-> IF reported THEN (latest - weekAgo) * 100 ELSE 0,
      den |-> IF reported THEN weekAgo ELSE 1]

\* GET /cards, cards.map for one card found: the latest prices and weekly
\* changes per vendor that are averaged into the summary
ApiSearch ==
  /\ apiPc = "idle"
  /\ apiPc' = "search"
  /\ apiRes' = [status |-> 200,
                changes |-> [t \in Types |->
                  [i \in DOMAIN vendorNames |-> VendorChange(apiPrices, vendorNames[i], t)]]]
  /\ UNCHANGED apiPrices
  /\ UNCHANGED <<sortVars, mergeVars, uploadVars, priceVars, pipeVars, dlVars, imgVars, raceVars, loadVars>>

\* findAllFinishes(card.prices)
findAllFinishes(prices) ==
  UNION { Keys(Get(Get(prices, vendorNames[i]), typeNames[j])) \ {"_id"} :
            i \in DOMAIN vendorNames, j \in DOMAIN typeNames }

\* getLatestForFinish(priceObj, type, finish)
getLatestForFinish(priceObj, type, finish) ==
  LET obj == Get(Get(priceObj, type), finish)
      dates == SortKeys(Keys(obj))
  IN IF IsNullish(obj) \/ Len(dates) = 0 THEN NullPrice
     ELSE NumberOf(obj[dates[Len(dates)]])

\* getFinishAggregates(type, finish): low, high and, for avg, the sum and
\* the number of the vendors' latest prices that are numbers; with no such
\* price low, avg and high are null
getFinishAggregates(prices, type, finish) ==
  LET has == { i \in DOMAIN vendorNames :
                 getLatestForFinish(Get(prices, vendorNames[i]), type, finish)
                   # NullPrice }
      vals == { getLatestForFinish(Get(prices, vendorNames[i]), type, finish) :
                  i \in has }
      Val(i) == IF i \in has
                THEN getLatestForFinish(Get(prices, vendorNames[i]), type, finish)
                ELSE 0
  IN [low |-> IF has = {} THEN NullPrice
              ELSE CHOOSE x \in vals : \A y \in vals : x <= y,
      high |-> IF has = {} THEN NullPrice
               ELSE CHOOSE x \in vals : \A y \in vals : x >= y,
      sum |-> Val(1) + Val(2) + Val(3),
      count |-> Cardinality(has)]

\* allDatesForFinish(card.prices, finish), before Array.from(dateSet).sort()
allDatesForFinish(prices, finish) ==
  UNION { Keys(Get(Get(Get(prices, vendorNames[i]), typeNames[j]), finish)) :
            i \in DOMAIN vendorNames, j \in DOMAIN typeNames }

\* mutant of allDates: the dates of the finish normal alone
allDatesOfNormal(prices) == SortKeys(allDatesForFinish(prices, "normal"))

\* const allDates = Array.from(allDatesSet).sort()
allDates(prices) ==
  SortKeys(UNION { allDatesForFinish(prices, f) : f \in findAllFinishes(prices) })

\* card.prices?.[v]?.[type]?.[finish]?.[date] is not undefined
HasPoint(prices, v, type, finish, date) ==
  date \in Keys(Get(Get(Get(prices, v), type), finish))

\* card.prices?.[v]?.[type]?.[finish]?.[date], where it is not undefined
PointOf(prices, v, type, finish, date) == prices[v][type][finish][date]

\* retailVals / buylistVals for one date and finish, as the sum and the
\* number of the values averaged; count 0 is the entry null
Averaged(prices, type, finish, date) ==
  LET has == { i \in DOMAIN vendorNames :
                 HasPoint(prices, vendorNames[i], type, finish, date) }
      Val(i) == IF i \in has
                THEN PointOf(prices, vendorNames[i], type, finish, date) ELSE 0
  IN [sum |-> Val(1) + Val(2) + Val(3), count |-> Cardinality(has)]

\* '$numberInt' in x with x === null: the filter of the history throws
HistoryThrows(prices) ==
  \E i \in DOMAIN vendorNames, j \in DOMAIN typeNames :
    \E f \in findAllFinishes(prices) :
      \E k \in DOMAIN allDates(prices) :
        /\ HasPoint(prices, vendorNames[i], typeNames[j], f, allDates(prices)[k])
        /\ PointOf(prices, vendorNames[i], typeNames[j], f, allDates(prices)[k])
             = NullPrice

\* const history = allDates.map(...)
History(prices) ==
  [k \in DOMAIN allDates(prices) |->
     [date |-> allDates(prices)[k],
      retail |-> [f \in findAllFinishes(prices) |->
                    Averaged(prices, "retail", f, allDates(prices)[k])],
      buylist |-> [f \in findAllFinishes(prices) |->
                    Averaged(prices, "buylist", f, allDates(prices)[k])]]]

\* GET /cards/:uuid for a card found: finishes, the vendor table and the
\* history; a stored null makes the history throw and the catch answers 500
ApiDetail ==
  /\ apiPc = "idle"
  /\ apiPc' = "detail"
  /\ apiRes' =
       IF HistoryThrows(apiPrices) THEN [status |-> 500]
       ELSE [status |-> 200,
             finishes |-> findAllFinishes(apiPrices),
             prices |-> [t \in Types |-> [f \in findAllFinishes(apiPrices) |->
                getFinishAggregates(apiPrices, t, f)]],
             vendors |-> [i \in DOMAIN vendorNames |->
                [t \in Types |-> [f \in findAllFinishes(apiPrices) |->
                   getLatestForFinish(Get(apiPrices, vendorNames[i]), t, f)]]],
             history |-> History(apiPrices)]
  /\ UNCHANGED apiPrices
  /\ UNCHANGED <<sortVars, mergeVars, uploadVars, priceVars, pipeVars, dlVars, imgVars, raceVars, loadVars>>

----------------------------------------------------------------------------
(* downloadJson *)

\* the file names of the two downloadFile calls of the main routine
DlName(k) == IF k = 1 THEN "AllIdentifiers.json" ELSE "AllPrices.json"

\* what the server holds for the k-th download
DlFeed(k) == IF k = 1 THEN idFeed ELSE priceFeed

\* the content of the k-th file becomes c
DlWrite(k, c) ==
  IF k = 1 THEN allIdentifiers' = c /\ UNCHANGED allPrices
  ELSE allPrices' = c /\ UNCHANGED allIdentifiers

\* fs.createWriteStream(filePath): the file exists, empty, before any response
DlOpen(k) ==
  /\ tempFiles' = tempFiles \cup {DlName(k)}
  /\ partialFiles' = partialFiles \cup {DlName(k)}

\* main routine: the first downloadFile call opens its file and sends its request
DlBegin ==
  /\ dlPc = "idle"
  /\ dlPc' = "get" /\ dlFile' = 1 /\ dlFailed' = FALSE /\ childExit' = "none"
  /\ DlOpen(1)
  /\ DlWrite(1, << >>)
  /\ UNCHANGED <<idFeed, priceFeed, stage, parsedCards, parsedPrices, dbAfterFirst>>
  /\ UNCHANGED <<sortVars, mergeVars, uploadVars, priceVars, imgVars, raceVars, loadVars, apiVars>>

\* status 200: the body is piped into the file, 'finish' resolves the promise;
\* after the first file the second downloadFile call opens its file, after
\* the second the script ends
DlOk ==
  /\ dlPc = "get"
  /\ IF dlFile = 1
     THEN /\ allIdentifiers' = idFeed
          /\ allPrices' = << >>
          /\ tempFiles' = tempFiles \cup {DlName(2)}
          /\ partialFiles' = (partialFiles \ {DlName(1)}) \cup {DlName(2)}
          /\ dlFile' = 2
          /\ UNCHANGED <<dlPc, childExit>>
     ELSE /\ DlWrite(2, priceFeed)
          /\ partialFiles' = partialFiles \ {DlName(2)}
          /\ dlPc' = "ended" /\ childExit' = "0"
          /\ UNCHANGED <<tempFiles, dlFile>>
  /\ UNCHANGED dlFailed
  /\ UNCHANGED <<idFeed, priceFeed, stage, parsedCards, parsedPrices, dbAfterFirst>>
  /\ UNCHANGED <<sortVars, mergeVars, uploadVars, priceVars, imgVars, raceVars, loadVars, apiVars>>

\* response.statusCode !== 200: reject without touching the file; the main
\* routine catches, logs and ends
DlStatus ==
  /\ dlPc = "get"
  /\ dlPc' = "ended" /\ dlFailed' = TRUE /\ childExit' = "0"
  /\ UNCHANGED <<dlFile, partialFiles>>
  /\ UNCHANGED pipeVars
  /\ UNCHANGED <<sortVars, mergeVars, uploadVars, priceVars, imgVars, raceVars, loadVars, apiVars>>

\* 'error' on the request: fs.unlink(filePath), reject; the main routine
\* catches, logs and ends
DlError ==
  /\ dlPc = "get"
  /\ tempFiles' = tempFiles \ {DlName(dlFile)}
  /\ partialFiles' = partialFiles \ {DlName(dlFile)}
  /\ dlPc' = "ended" /\ dlFailed' = TRUE /\ childExit' = "0"
  /\ UNCHANGED dlFile
  /\ UNCHANGED <<idFeed, priceFeed, stage, allIdentifiers, allPrices, parsedCards,
                 parsedPrices, dbAfterFirst>>
  /\ UNCHANGED <<sortVars, mergeVars, uploadVars, priceVars, imgVars, raceVars, loadVars, apiVars>>

\* the connection is lost while the body is piped: the 'error' is emitted on
\* the response, which has no handler, not on the request.  The entries
\* received so far stay in the file; the promise settles never; the process
\* ends with the uncaught error (code 1) or, where the runtime does not emit
\* it without a listener, with code 0
DlCut ==
  /\ dlPc = "get"
  /\ \E n \in 0..Len(DlFeed(dlFile)) :
       /\ n < Len(DlFeed(dlFile)) \/ n = 0
       /\ DlWrite(dlFile, SubSeq(DlFeed(dlFile), 1, n))
  /\ \E code \in {"0", "1"} : childExit' = code
  /\ dlPc' = "ended" /\ dlFailed' = TRUE
  /\ UNCHANGED <<dlFile, partialFiles>>
  /\ UNCHANGED <<idFeed, priceFeed, stage, parsedCards, parsedPrices, tempFiles,
                 dbAfterFirst>>
  /\ UNCHANGED <<sortVars, mergeVars, uploadVars, priceVars, imgVars, raceVars, loadVars, apiVars>>

DlStep ==
  \/ DlBegin
  \/ DlOk
  \/ DlStatus
  \/ DlError
  \/ DlCut

----------------------------------------------------------------------------
(* runDailySync: runAll *)

\* STEP 1: runScript('downloadJson.ts')
PipeDownload ==
  /\ stage = "downloadJson"
  /\ UNCHANGED dlVars
  /\ allIdentifiers' = idFeed
  /\ allPrices' = priceFeed
  /\ tempFiles' = tempFiles \cup {"AllIdentifiers.json", "AllPrices.json"}
  /\ stage' = "parseCards"
  /\ UNCHANGED <<idFeed, priceFeed, parsedCards, parsedPrices, dbAfterFirst>>
  /\ UNCHANGED <<sortVars, mergeVars, uploadVars, priceVars, imgVars, raceVars, loadVars, apiVars>>

\* STEP 2: runScript('parseCards.ts')
PipeParseCards ==
  /\ stage = "parseCards"
  /\ UNCHANGED dlVars
  /\ parsedCards' = ParseCards(allIdentifiers)
  /\ tempFiles' = tempFiles \cup {"parsedCards.ndjson"}
  /\ stage' = "parsePrices"
  /\ UNCHANGED <<idFeed, priceFeed, allIdentifiers, allPrices, parsedPrices,
                 dbAfterFirst>>
  /\ UNCHANGED <<sortVars, mergeVars, uploadVars, priceVars, imgVars, raceVars, loadVars, apiVars>>

\* STEP 3: runScript('parsePrices.ts')
PipeParsePrices ==
  /\ stage = "parsePrices"
  /\ UNCHANGED dlVars
  /\ parsedPrices' = ParsePrices(parsedCards, allPrices)
  /\ tempFiles' = tempFiles \cup {"parsedPrices.ndjson"}
  /\ stage' = "sortCards"
  /\ UNCHANGED <<idFeed, priceFeed, allIdentifiers, allPrices, parsedCards,
                 dbAfterFirst>>
  /\ UNCHANGED <<sortVars, mergeVars, uploadVars, priceVars, imgVars, raceVars, loadVars, apiVars>>

\* STEP 4a: runScript('sortNdjson.ts parsedCards.ndjson cardsSorted.ndjson');
\* the script exits with code 1 when the sort throws, which ends runAll
PipeSortCards ==
  /\ stage = "sortCards"
  /\ UNCHANGED dlVars
  /\ sortIn' = parsedCards
  /\ sortRes' = SortNdjson(parsedCards)
  /\ IF sortRes'.status = "done"
     THEN /\ cardFile' = sortRes'.out
          /\ tempFiles' = tempFiles \cup {"cardsSorted.ndjson"}
          /\ stage' = "sortPrices"
     ELSE /\ stage' = "failed"
          /\ UNCHANGED <<cardFile, tempFiles>>
  /\ UNCHANGED <<priceFile, card, price, output, mergePc, iters>>
  /\ UNCHANGED <<idFeed, priceFeed, allIdentifiers, allPrices, parsedCards,
                 parsedPrices, dbAfterFirst>>
  /\ UNCHANGED <<uploadVars, priceVars, imgVars, raceVars, loadVars, apiVars>>

\* STEP 4b: runScript('sortNdjson.ts parsedPrices.ndjson pricesSorted.ndjson')
PipeSortPrices ==
  /\ stage = "sortPrices"
  /\ UNCHANGED dlVars
  /\ sortIn' = parsedPrices
  /\ sortRes' = SortNdjson(parsedPrices)
  /\ IF sortRes'.status = "done"
     THEN /\ priceFile' = sortRes'.out
          /\ tempFiles' = tempFiles \cup {"pricesSorted.ndjson"}
          /\ stage' = "mergeSortedNdjson"
     ELSE /\ stage' = "failed"
          /\ UNCHANGED <<priceFile, tempFiles>>
  /\ UNCHANGED <<cardFile, card, price, output, mergePc, iters>>
  /\ UNCHANGED <<idFeed, priceFeed, allIdentifiers, allPrices, parsedCards,
                 parsedPrices, dbAfterFirst>>
  /\ UNCHANGED <<uploadVars, priceVars, imgVars, raceVars, loadVars, apiVars>>

\* STEP 5: runScript('mergeSortedNdjson.ts'), its steps
PipeMerge ==
  /\ stage = "mergeSortedNdjson"
  /\ \/ MergeStart
     \/ MergeAdvanceCard
     \/ MergeAdvancePrice
     \/ MergeWrite
     \/ MergeFinish

\* STEP 6: runScript('uploadToMongo.ts') once the merge script has ended
PipeUpload ==
  /\ stage = "mergeSortedNdjson"
  /\ UNCHANGED dlVars
  /\ mergePc = "done"
  /\ BeginUpload(output)
  /\ stage' = "uploadToMongo"
  /\ tempFiles' = tempFiles \cup {"mergedCards.ndjson"}
  /\ UNCHANGED <<idFeed, priceFeed, allIdentifiers, allPrices, parsedCards,
                 parsedPrices, dbAfterFirst>>
  /\ UNCHANGED <<sortVars, mergeVars, priceVars, imgVars, raceVars, loadVars, apiVars>>

\* the steps of the upload script
PipeUploadStep ==
  /\ stage = "uploadToMongo"
  /\ \/ UploadPush
     \/ UploadPushFlush
     \/ UploadEnd

\* a cleanup that keeps no file
cleanDirectory(files, fileToKeep) == {}

\* cleanDirectoryExcept: the files of the directory after the unlink calls
cleanDirectoryExcept(files, fileToKeep) == { file \in files : file = fileToKeep }

\* STEP 7: runScript('cleanUp.ts') once the upload script has ended: every
\* file of temp/ but .keep is deleted; runAll returns
PipeCleanUp ==
  /\ stage = "uploadToMongo"
  /\ uploadPc = "done"
  /\ tempFiles' = cleanDirectoryExcept(tempFiles, ".keep")
  /\ partialFiles' = cleanDirectoryExcept(partialFiles, ".keep")
  /\ UNCHANGED <<dlPc, dlFile, dlFailed, childExit>>
  /\ stage' = "end"
  /\ dbAfterFirst' = IF runs = 1 THEN db ELSE dbAfterFirst
  /\ UNCHANGED <<idFeed, priceFeed, allIdentifiers, allPrices, parsedCards,
                 parsedPrices>>
  /\ UNCHANGED <<sortVars, mergeVars, uploadVars, priceVars, imgVars, raceVars, loadVars, apiVars>>

\* the next daily run of runDailySync.ts, on the same upstream feeds
PipeRunAgain ==
  /\ stage = "end"
  /\ UNCHANGED dlVars
  /\ runs < MaxRuns
  /\ stage' = "downloadJson"
  /\ mergePc' = "idle"
  /\ UNCHANGED <<cardFile, priceFile, card, price, output, iters>>
  /\ UNCHANGED <<idFeed, priceFeed, allIdentifiers, allPrices, parsedCards,
                 parsedPrices, tempFiles, dbAfterFirst>>
  /\ UNCHANGED <<sortVars, uploadVars, priceVars, imgVars, raceVars, loadVars, apiVars>>

\* STEP 1, with the responses the servers can give: the steps of the script
RunDownload ==
  /\ stage = "downloadJson"
  /\ DlStep

\* execSync returns when the download script has ended: with code 0 the next
\* step runs, otherwise execSync throws and the catch block calls
\* process.exit(1)
RunAfterDownload ==
  /\ stage = "downloadJson"
  /\ dlPc = "ended"
  /\ stage' = IF childExit = "0" THEN "parseCards" ELSE "failed"
  /\ dlPc' = "idle"
  /\ UNCHANGED <<dlFile, dlFailed, childExit, partialFiles>>
  /\ UNCHANGED <<idFeed, priceFeed, allIdentifiers, allPrices, parsedCards,
                 parsedPrices, tempFiles, dbAfterFirst>>
  /\ UNCHANGED <<sortVars, mergeVars, uploadVars, priceVars, imgVars, raceVars, loadVars, apiVars>>

\* the exit code of runDailySync.ts once runAll is over
ExitCode ==
  CASE stage = "end" -> "0"
    [] stage = "failed" -> "1"
    [] OTHER -> "none"

----------------------------------------------------------------------------
(* Input domains *)

SeqsUpTo(S, n) == UNION { [1..k -> S] : k \in 0..n }

\* lines a file handed to sortNdjson is made of
SortLinesIn ==
  { CardLine(id, "n1") : id \in Ids }
  \cup { Line(TRUE, f, <<97>>, "n2", Undef, NoPrices) : f \in {"compact", "spaced"} }
  \cup { CardLine(NoUuid, "n1"), BadLine }

\* two snapshots that differ in date and price
Snap1 == Leaf("tcgplayer", "retail", "normal", DateKey(1), 5)
Snap2 == Leaf("tcgplayer", "retail", "normal", DateKey(2), 6)

\* lines of the card side of the merge-join; one record carries a prices field
MergeCardLines ==
  { CardLine(id, "n1") : id \in Ids }
  \cup { Line(TRUE, "compact", <<97>>, "n2", Undef, Snap1),
         CardLine(NoUuid, "n1"), BadLine }

\* lines of the price side of the merge-join; one record carries a name and a
\* scryfallId beside its prices
MergePriceLines ==
  { PriceLine(id, Snap1) : id \in Ids }
  \cup { Line(TRUE, "compact", <<97>>, "pn", "ps", Snap2),
         PriceLine(NoUuid, Snap1), BadLine }

\* further snapshots: date 1 at another price, another vendor, another finish
Snap3 == Leaf("tcgplayer", "retail", "normal", DateKey(1), 7)
Snap4 == Leaf("cardkingdom", "buylist", "foil", DateKey(1), 5)

\* lines of a merged file given to the upload
UploadLines ==
  { Line(TRUE, "compact", <<97>>, "n1", Undef, Snap1),
    Line(TRUE, "compact", <<97>>, "n2", "s1", Snap2),
    Line(TRUE, "compact", <<97>>, "n3", Undef, Snap3),
    Line(TRUE, "compact", <<66>>, "n1", "s1", Snap4),
    BadLine }

\* date -> price maps
DateMaps == UNION { [ds -> {5, 7}] : ds \in SUBSET Dates }

\* finish -> date map: none, one finish, or normal and foil together
FinishMaps ==
  { EmptyObj }
  \cup { f :> dm : f \in {"normal", "foil"}, dm \in DateMaps }
  \cup { ("normal" :> a) @@ ("foil" :> b) :
           a \in { DateKey(1) :> 5 }, b \in { DateKey(1) :> 7, DateKey(2) :> 5 } }

\* type -> finish map: none, retail alone, or retail and buylist together
TypeMaps ==
  { EmptyObj }
  \cup { "retail" :> fm : fm \in FinishMaps }
  \cup { ("retail" :> ("normal" :> (DateKey(1) :> 5)))
           @@ ("buylist" :> ("normal" :> (DateKey(d) :> 7))) : d \in 1..2 }

\* the arguments given to mergePriceObjects: undefined, {} and price trees
PriceTrees ==
  { NoPrices, EmptyObj }
  \cup { "tcgplayer" :> tm : tm \in TypeMaps }
  \cup { Snap1 @@ Snap4, Snap2 @@ Snap4, Snap4 }

\* the date map of a feed entry: two days and a key that is no date ("l")
TwoDays == (DateKey(1) :> 5) @@ (DateKey(2) :> 7) @@ (<<108>> :> 9)

\* entries of the upstream identifier feed
IdFeedEntries ==
  { IdEntry(<<97>>, "n1", "SET", "English", Undef),
    IdEntry(<<97>>, "n2", "SET", "English", "s1"),
    IdEntry(<<66>>, "n1", "SET", "English", "s1"),
    IdEntry(<<97, 66>>, "n1", "SET", "Japanese", Undef),
    IdEntry(<<49>>, "n1", Undef, "English", Undef) }

\* entries of the upstream price feed
PriceFeedEntries ==
  { [key |-> <<97>>, paper |-> "tcgplayer" :> ("retail" :> ("normal" :> TwoDays))],
    [key |-> <<97>>, paper |-> Snap1 @@ Snap4],
    [key |-> <<66>>, paper |-> Snap4],
    [key |-> <<97, 66>>, paper |-> Snap1],
    [key |-> <<66>>, paper |-> "cardhoarder" :> ("retail" :> ("normal" :> TwoDays))] }

\* entries of the identifier feed given to the filter alone: complete English
\* entries, an entry in another language, an entry without language, and
\* English entries without uuid, with an empty name, without setCode
FilterEntries ==
  { IdEntry(<<97>>, "n1", "SET", "English", Undef),
    IdEntry(<<66>>, "n1", "SET", "English", "s1"),
    IdEntry(<<97, 66>>, "n2", "SET", "English", Undef),
    IdEntry(<<49>>, "n1", "SET", "Japanese", Undef),
    IdEntry(<<49>>, "n1", "SET", Undef, Undef),
    IdEntry(NoUuid, "n1", "SET", "English", Undef),
    IdEntry(<<49>>, "", "SET", "English", Undef),
    IdEntry(<<49>>, "n1", Undef, "English", "s1") }

\* the date map of the feed with three days out of order: 2024-01-01: 10,
\* 2024-01-03: 12, 2024-01-02: 11
ThreeDays == (DateKey(1) :> 10) @@ (DateKey(3) :> 12) @@ (DateKey(2) :> 11)

\* a date map whose only key is no date
NoDay == <<108>> :> 9

\* lines of parsedCards.ndjson given to the extractor alone
ExtractCardLines == { CardLine(<<97>>, "n1"), CardLine(<<66>>, "n1") }

\* entries of the price feed given to the extractor alone
ExtractEntries ==
  { [key |-> <<97>>, paper |-> "tcgplayer" :> ("retail" :> ("normal" :> ThreeDays))],
    [key |-> <<97>>,
     paper |-> "tcgplayer" :> ("retail" :> (("normal" :> TwoDays) @@ ("foil" :> NoDay)))],
    [key |-> <<66>>,
     paper |-> "cardkingdom" :> (("buylist" :> ("etched" :> ThreeDays))
                                 @@ ("retail" :> ("normal" :> EmptyObj))
                                 @@ ("other" :> ("normal" :> ThreeDays)))],
    [key |-> <<49>>, paper |-> Snap1],
    [key |-> <<97>>, paper |-> "cardhoarder" :> ("retail" :> ("normal" :> ThreeDays))],
    [key |-> <<66>>, paper |-> NoPrices],
    [key |-> <<97>>, paper |-> "tcgplayer" :> ("retail" :> ("glossy" :> ThreeDays))] }

----------------------------------------------------------------------------
(* Specification of the sort stage alone *)

DlIdle ==
  /\ dlPc = "idle" /\ dlFile = 1 /\ dlFailed = FALSE
  /\ childExit = "none" /\ partialFiles = {}

ImgIdle ==
  /\ imgPc = "idle" /\ skip = 0 /\ imgCards = << >> /\ cardIdx = 1
  /\ requests = 0 /\ eligible = {} /\ lookups = << >>

NoPeer == [pc |-> "idle", file |-> << >>, rlPos |-> 1, buffer |-> << >>]

PeerIdle == peer = NoPeer

LoadIdle == ppPc = "idle" /\ knownUUIDs = {} /\ ppLine = 1 /\ ppEntry = 1

NoResponse == [status |-> 0]

ApiIdle == apiPc = "idle" /\ apiPrices = NoPrices /\ apiRes = NoResponse

PipeIdle ==
  /\ idFeed = << >> /\ priceFeed = << >> /\ stage = "idle"
  /\ allIdentifiers = << >> /\ allPrices = << >>
  /\ parsedCards = << >> /\ parsedPrices = << >>
  /\ tempFiles = {".keep"} /\ dbAfterFirst = << >>

PriceIdle ==
  /\ argExisting = NoPrices /\ argIncoming = NoPrices
  /\ merged = NoPrices /\ remerged = NoPrices /\ applied = 0

UploadIdle ==
  /\ db = << >> /\ uploadFile = << >> /\ rlPos = 1 /\ buffer = << >>
  /\ total = 0 /\ uploadPc = "idle" /\ runs = 0
  /\ dbAtStart = << >> /\ supplied = << >> /\ clean = TRUE
  /\ killedFrom = << >>
  /\ sent = << >> /\ conn = "closed"

MergeIdle ==
  /\ cardFile = << >> /\ priceFile = << >> /\ card = 1 /\ price = 1
  /\ output = << >> /\ mergePc = "idle" /\ iters = 0

InitSort ==
  /\ sortIn \in SeqsUpTo(SortLinesIn, MaxLines)
  /\ sortRes = IdleSort
  /\ MergeIdle
  /\ UploadIdle
  /\ PriceIdle
  /\ PipeIdle
  /\ DlIdle /\ ImgIdle /\ PeerIdle /\ LoadIdle /\ ApiIdle

RunSort ==
  /\ sortRes.status = "idle"
  /\ sortRes' = SortNdjson(sortIn)
  /\ UNCHANGED <<sortIn, notSort>>

NextSort == RunSort

SpecSort == InitSort /\ [][NextSort]_vars

----------------------------------------------------------------------------
(* Specification of the merge-join alone, on arbitrary input files *)

SortIdle == sortIn = << >> /\ sortRes = IdleSort

InitMerge ==
  /\ cardFile \in SeqsUpTo(MergeCardLines, MaxSide)
  /\ priceFile \in SeqsUpTo(MergePriceLines, MaxSide)
  /\ card = 1 /\ price = 1 /\ output = << >> /\ mergePc = "idle" /\ iters = 0
  /\ SortIdle
  /\ UploadIdle
  /\ PriceIdle
  /\ PipeIdle
  /\ DlIdle /\ ImgIdle /\ PeerIdle /\ LoadIdle /\ ApiIdle

NextMerge == MergeStart \/ MergeStep

SpecMerge == InitMerge /\ [][NextMerge]_vars

----------------------------------------------------------------------------
(* Specification of the upload alone: successive uploads of arbitrary merged
   files into one collection *)

InitUpload ==
  SortIdle /\ MergeIdle /\ UploadIdle /\ PriceIdle /\ PipeIdle /\ DlIdle /\ ImgIdle /\ PeerIdle /\ LoadIdle /\ ApiIdle

\* a run of uploadToMongo.ts starts once the previous one has ended
UploadStart ==
  /\ uploadPc \in {"idle", "done", "failed"}
  /\ runs < MaxRuns
  /\ \E file \in SeqsUpTo(UploadLines, MaxFile) : BeginUpload(file)
  /\ UNCHANGED notUpload

NextUpload == UploadStart \/ UploadStep

SpecUpload == InitUpload /\ [][NextUpload]_vars

----------------------------------------------------------------------------
(* Specification of mergePriceObjects alone: it is applied to a stored
   history and a snapshot, and then to its own result and the same snapshot *)

InitPrices ==
  /\ argExisting \in PriceTrees
  /\ argIncoming \in PriceTrees
  /\ merged = NoPrices /\ remerged = NoPrices /\ applied = 0
  /\ SortIdle /\ MergeIdle /\ UploadIdle /\ PipeIdle /\ DlIdle /\ ImgIdle /\ PeerIdle /\ LoadIdle /\ ApiIdle

\* mergedPrices = mergePriceObjects(existing?.prices, card.prices)
ApplyMerge ==
  /\ applied = 0
  /\ merged' = mergePriceObjects(argExisting, argIncoming)
  /\ applied' = 1
  /\ UNCHANGED <<argExisting, argIncoming, remerged, notPrice>>

\* the next run reads the stored result and merges the same snapshot again
ApplyAgain ==
  /\ applied = 1
  /\ remerged' = mergePriceObjects(merged, argIncoming)
  /\ applied' = 2
  /\ UNCHANGED <<argExisting, argIncoming, merged, notPrice>>

NextPrices == ApplyMerge \/ ApplyAgain

SpecPrices == InitPrices /\ [][NextPrices]_vars

----------------------------------------------------------------------------
(* Specification of the whole pipeline: daily runs of runDailySync.ts on the
   same upstream feeds, into one collection *)

InitPipeline ==
  /\ idFeed \in SeqsUpTo(IdFeedEntries, MaxFeed)
  /\ priceFeed \in SeqsUpTo(PriceFeedEntries, MaxFeed)
  /\ stage = "downloadJson"
  /\ allIdentifiers = << >> /\ allPrices = << >>
  /\ parsedCards = << >> /\ parsedPrices = << >>
  /\ tempFiles = {".keep"} /\ dbAfterFirst = << >>
  /\ SortIdle /\ MergeIdle /\ UploadIdle /\ PriceIdle /\ DlIdle /\ ImgIdle /\ PeerIdle /\ LoadIdle /\ ApiIdle

NextPipeline ==
  \/ PipeDownload
  \/ PipeParseCards
  \/ PipeParsePrices
  \/ PipeSortCards
  \/ PipeSortPrices
  \/ PipeMerge
  \/ PipeUpload
  \/ PipeUploadStep
  \/ PipeCleanUp
  \/ PipeRunAgain

SpecPipeline == InitPipeline /\ [][NextPipeline]_vars

----------------------------------------------------------------------------
(* Specification of uploads that can be killed and are then run again *)

InitResume == InitUpload

NextResume ==
  \/ UploadStart
  \/ UploadParseError
  \/ UploadPush
  \/ UploadPushFlush
  \/ UploadEnd
  \/ UploadKill
  \/ UploadRerun

SpecResume == InitResume /\ [][NextResume]_vars

----------------------------------------------------------------------------
(* Specification of the filter alone: parseCards.ts on a downloaded feed *)

InitFilter ==
  /\ allIdentifiers \in SeqsUpTo(FilterEntries, MaxIdFeed)
  /\ stage = "parseCards"
  /\ idFeed = << >> /\ priceFeed = << >> /\ allPrices = << >>
  /\ parsedCards = << >> /\ parsedPrices = << >>
  /\ tempFiles = {".keep", "AllIdentifiers.json", "AllPrices.json"}
  /\ dbAfterFirst = << >>
  /\ SortIdle /\ MergeIdle /\ UploadIdle /\ PriceIdle /\ DlIdle /\ ImgIdle /\ PeerIdle /\ LoadIdle /\ ApiIdle

NextFilter == PipeParseCards

SpecFilter == InitFilter /\ [][NextFilter]_vars

----------------------------------------------------------------------------
(* Specification of the extractor alone: parsePrices.ts on the filter's output
   and a downloaded price feed *)

InitExtract ==
  /\ parsedCards \in SeqsUpTo(ExtractCardLines, MaxPriceFeed)
  /\ allPrices \in SeqsUpTo(ExtractEntries, MaxPriceFeed)
  /\ stage = "parsePrices"
  /\ idFeed = << >> /\ priceFeed = << >> /\ allIdentifiers = << >>
  /\ parsedPrices = << >>
  /\ tempFiles = {".keep", "AllIdentifiers.json", "AllPrices.json",
                  "parsedCards.ndjson"}
  /\ dbAfterFirst = << >>
  /\ SortIdle /\ MergeIdle /\ UploadIdle /\ PriceIdle /\ DlIdle /\ ImgIdle /\ PeerIdle /\ LoadIdle /\ ApiIdle

NextExtract == PipeParsePrices

SpecExtract == InitExtract /\ [][NextExtract]_vars

----------------------------------------------------------------------------
(* Specification of the extractor step by step: loadUUIDs on the filter's
   output, then the handler on each entry of the price feed *)

\* lines of parsedCards.ndjson: cards "a", "B", "aB" and a line without uuid
LoadCardLines ==
  { CardLine(<<97>>, "n1"), CardLine(<<66>>, "n1"), CardLine(<<97, 66>>, "n1"),
    CardLine(NoUuid, "n1") }

\* entries of the price feed: prices of "a", "B", "aB", of a card the filter
\* dropped ("1"), and an entry of "a" without a supported vendor
LoadEntries ==
  { [key |-> <<97>>, paper |-> "tcgplayer" :> ("retail" :> ("normal" :> ThreeDays))],
    [key |-> <<66>>, paper |-> Snap4],
    [key |-> <<97, 66>>, paper |-> Snap1],
    [key |-> <<49>>, paper |-> Snap1],
    [key |-> <<97>>, paper |-> "cardhoarder" :> ("retail" :> ("normal" :> ThreeDays))] }

InitLoad ==
  /\ parsedCards \in SeqsUpTo(LoadCardLines, MaxLoadLines)
  /\ allPrices \in SeqsUpTo(LoadEntries, MaxLoadFeed)
  /\ stage = "parsePrices"
  /\ idFeed = << >> /\ priceFeed = << >> /\ allIdentifiers = << >>
  /\ parsedPrices = << >>
  /\ tempFiles = {".keep", "AllIdentifiers.json", "AllPrices.json",
                  "parsedCards.ndjson"}
  /\ dbAfterFirst = << >>
  /\ SortIdle /\ MergeIdle /\ UploadIdle /\ PriceIdle /\ DlIdle /\ ImgIdle /\ PeerIdle /\ LoadIdle /\ ApiIdle

NextLoad ==
  \/ PpStart
  \/ PpLoadLine
  \/ PpLoaded
  \/ PpData
  \/ PpEnd

SpecLoad == InitLoad /\ [][NextLoad]_vars

----------------------------------------------------------------------------
(* Specification of the cards routes on one stored card *)

\* the tree of a set of price points <<vendor, type, finish, day, value>>
TreeOf(points) ==
  [v \in { p[1] : p \in points } |->
    [t \in { p[2] : p \in { q \in points : q[1] = v } } |->
      [f \in { p[3] : p \in { q \in points : q[1] = v /\ q[2] = t } } |->
        [d \in { DateKey(p[4]) :
                   p \in { q \in points : q[1] = v /\ q[2] = t /\ q[3] = f } } |->
          (CHOOSE p \in points :
             p[1] = v /\ p[2] = t /\ p[3] = f /\ DateKey(p[4]) = d)[5]]]]]

\* histories of the search: tcgplayer retail normal on any of MaxApiDay days
\* (the price of day d is d - 1, so 0 on the first day), cardkingdom retail
\* normal on every day
SearchPoints ==
  { <<"tcgplayer", "retail", "normal", d, d - 1>> : d \in 1..MaxApiDay }

FullVendor ==
  { <<"cardkingdom", "retail", "normal", d, 20 + d>> : d \in 1..MaxApiDay }

\* histories of the detail: points of three vendors, both types, three
\* finishes, on days that overlap in part, and a stored null
DetailPoints ==
  { <<"tcgplayer", "retail", "normal", 3, 5>>,
    <<"tcgplayer", "retail", "normal", 1, 4>>,
    <<"tcgplayer", "buylist", "normal", 2, 3>>,
    <<"tcgplayer", "retail", "foil", 3, 9>>,
    <<"cardkingdom", "retail", "foil", 3, 8>>,
    <<"cardkingdom", "buylist", "foil", 2, 6>>,
    <<"cardmarket", "retail", "etched", 4, 7>>,
    <<"cardmarket", "buylist", "normal", 5, NullPrice>> }

InitApi ==
  /\ apiPc = "idle"
  /\ apiRes = NoResponse
  /\ apiPrices \in { TreeOf(P \cup F) : P \in SUBSET SearchPoints, F \in {{}, FullVendor} }
                   \cup { TreeOf(P) : P \in SUBSET DetailPoints }
                   \cup { NoPrices }
  /\ SortIdle /\ MergeIdle /\ UploadIdle /\ PriceIdle /\ PipeIdle /\ DlIdle /\ ImgIdle /\ PeerIdle /\ LoadIdle

NextApi ==
  \/ ApiSearch
  \/ ApiDetail

SpecApi == InitApi /\ [][NextApi]_vars

----------------------------------------------------------------------------
(* Specification of the download alone: downloadJson.ts against servers that
   answer 200, answer another status, fail, or drop the connection *)

InitDownload ==
  /\ idFeed \in SeqsUpTo(IdFeedEntries, MaxRunFeed)
  /\ priceFeed \in SeqsUpTo(PriceFeedEntries, MaxRunFeed)
  /\ stage = "downloadJson"
  /\ allIdentifiers = << >> /\ allPrices = << >>
  /\ parsedCards = << >> /\ parsedPrices = << >>
  /\ tempFiles \in {{}, {".keep"}} /\ dbAfterFirst = << >>
  /\ SortIdle /\ MergeIdle /\ UploadIdle /\ PriceIdle /\ DlIdle /\ ImgIdle /\ PeerIdle /\ LoadIdle /\ ApiIdle

NextDownload == DlStep

SpecDownload == InitDownload /\ [][NextDownload]_vars

----------------------------------------------------------------------------
(* Specification of one run of runDailySync.ts with download failures *)

InitRun == InitDownload

NextRun ==
  \/ RunDownload
  \/ RunAfterDownload
  \/ PipeParseCards
  \/ PipeParsePrices
  \/ PipeSortCards
  \/ PipeSortPrices
  \/ PipeMerge
  \/ PipeUpload
  \/ PipeUploadStep
  \/ PipeCleanUp

SpecRun == InitRun /\ [][NextRun]_vars

----------------------------------------------------------------------------
(* Specification of the enrichment pass alone: one pass over an arbitrary
   collection *)

\* a stored document
Doc(uuid, scryfallId, prices, imageUrl) ==
  [uuid |-> uuid, name |-> "n1", scryfallId |-> scryfallId, prices |-> prices,
   imageUrl |-> imageUrl]

\* the uuids of the documents, in the order of the collection
DocIds == << <<49>>, <<66>>, <<97>> >>

\* the collections an enrichment pass can find
ImageCollections ==
  UNION { { [i \in 1..n |-> Doc(DocIds[i], f[i][1], Snap1, f[i][2])] :
              f \in [1..n -> {Undef, "s1", ""} \X
                            {Undef, JsNull, PLACEHOLDER_IMAGE, "img:s0"}] } :
          n \in 0..MaxDocs }

InitImages ==
  /\ SortIdle /\ MergeIdle /\ PriceIdle /\ PipeIdle /\ DlIdle /\ ImgIdle /\ PeerIdle /\ LoadIdle /\ ApiIdle
  /\ db \in ImageCollections
  /\ uploadFile = << >> /\ rlPos = 1 /\ buffer = << >>
  /\ total = 0 /\ uploadPc = "idle" /\ runs = 0
  /\ dbAtStart = << >> /\ supplied = << >> /\ clean = TRUE
  /\ killedFrom = << >> /\ sent = << >> /\ conn = "closed"

NextImages == ImgStep

SpecImages == InitImages /\ [][NextImages]_vars

----------------------------------------------------------------------------
(* Specification of uploads and an enrichment pass on one collection that
   holds documents already: the scripts run one after the other, in any
   order *)

\* lines of the merged files
StoreLines ==
  { Line(TRUE, "compact", <<97>>, "n2", "s1", Snap2),
    Line(TRUE, "compact", <<97>>, "n1", Undef, Snap1),
    Line(TRUE, "compact", <<66>>, "n1", "s1", Snap4) }

\* the collections the scripts can find: a document can lack prices and
\* imageUrl (it was written before the schema had them)
StoreCollections ==
  {<< >>}
  \cup { <<Doc(<<97>>, "s1", p, img)>> :
           p \in {NoPrices, Snap1}, img \in {Undef, PLACEHOLDER_IMAGE} }
  \cup { <<Doc(<<97>>, "s1", p, img), Doc(<<66>>, "s1", NoPrices, Undef)>> :
           p \in {NoPrices, Snap1}, img \in {Undef, PLACEHOLDER_IMAGE} }

InitStore ==
  /\ SortIdle /\ MergeIdle /\ PriceIdle /\ PipeIdle /\ DlIdle /\ ImgIdle /\ PeerIdle /\ LoadIdle /\ ApiIdle
  /\ db \in StoreCollections
  /\ uploadFile = << >> /\ rlPos = 1 /\ buffer = << >>
  /\ total = 0 /\ uploadPc = "idle" /\ runs = 0
  /\ dbAtStart = << >> /\ supplied = << >> /\ clean = TRUE
  /\ killedFrom = << >> /\ sent = << >> /\ conn = "closed"

\* a run of uploadToMongo.ts starts when no script is running
StoreUploadStart ==
  /\ uploadPc \in {"idle", "done"}
  /\ imgPc \in {"idle", "done"}
  /\ runs < MaxRuns
  /\ \E file \in SeqsUpTo(StoreLines, MaxFile) : BeginUpload(file)
  /\ UNCHANGED notUpload

\* a run of syncScryfallImages.ts starts when no script is running
StoreImgStart ==
  /\ uploadPc \in {"idle", "done"}
  /\ ImgStart

NextStore ==
  \/ StoreUploadStart
  \/ UploadPush
  \/ UploadPushFlush
  \/ UploadEnd
  \/ StoreImgStart
  \/ ImgFind
  \/ ImgCard
  \/ ImgRateLimited
  \/ ImgAnswer

SpecStore == InitStore /\ [][NextStore]_vars

----------------------------------------------------------------------------
(* Specification of two pipeline runs that upload at the same time into one
   collection: the steps of the two uploadNDJSON calls interleave *)

InitRace == InitStore

\* the first run starts its upload
RaceUploadStart ==
  /\ uploadPc = "idle"
  /\ \E file \in SeqsUpTo(StoreLines, MaxFile) : BeginUpload(file)
  /\ UNCHANGED notUpload

\* the second run starts its upload
RacePeerStart == \E file \in SeqsUpTo(StoreLines, MaxFile) : PeerStart(file)

NextRace ==
  \/ RaceUploadStart
  \/ UploadPush
  \/ UploadPushFlush
  \/ UploadEnd
  \/ RacePeerStart
  \/ PeerPush
  \/ PeerPushFlush
  \/ PeerEnd

SpecRace == InitRace /\ [][NextRace]_vars

----------------------------------------------------------------------------
(* Claims about the sort stage (SpecSort) *)

\* number of positions of sequence s that hold x
Count(x, s) == Cardinality({ i \in DOMAIN s : s[i] = x })

\* the values JSON.parse gives for the lines of a file that parse
ValuesOf(file) ==
  LET good == SelectSeq(file, LAMBDA l : l.json)
  IN [i \in 1..Len(good) |->
        [uuid |-> good[i].uuid, name |-> good[i].name,
         scryfallId |-> good[i].scryfallId, prices |-> good[i].prices]]

\* number of lines of a file that are not JSON
BadCount(file) == Cardinality({ i \in DOMAIN file : ~file[i].json })

\* C8: when sortNdjson has written its output, the output holds exactly the
\* records of the input lines that parse as JSON, each as often as the input
\* holds it, also when records share an identifier.
C8_SortKeepsEveryRecord ==
  sortRes.status = "done" =>
    /\ \A i \in DOMAIN sortRes.out : sortRes.out[i].json
    /\ \A x \in { ValuesOf(sortIn)[i] : i \in DOMAIN ValuesOf(sortIn) }
             \cup { ValuesOf(sortRes.out)[i] : i \in DOMAIN ValuesOf(sortRes.out) } :
          Count(x, ValuesOf(sortRes.out)) = Count(x, ValuesOf(sortIn))

\* C8 witness: a finished sort of three valid lines, two of them with the
\* same uuid and different names, one of them twice.
C8_Witness ==
  /\ sortRes.status = "done"
  /\ Len(sortRes.out) = 3
  /\ \E i, j \in DOMAIN sortRes.out :
        /\ i # j
        /\ sortRes.out[i].uuid = sortRes.out[j].uuid
        /\ sortRes.out[i].name # sortRes.out[j].name
  /\ \E i, j \in DOMAIN sortRes.out : i # j /\ sortRes.out[i] = sortRes.out[j]

\* C10: a line that is not JSON never aborts the sort.  When every line that
\* parses has a uuid the sort completes, whatever the number of lines that do
\* not parse; a completed sort reports the number of unparsable lines as
\* skipped and the number of parsed lines as sorted, and its output is the
\* parsed records in the order of the sort's comparator.
C10_BadLinesAreSkipped ==
  /\ ( /\ sortRes.status # "idle"
       /\ \A i \in DOMAIN sortIn : sortIn[i].json => sortIn[i].uuid # NoUuid )
     => sortRes.status = "done"
  /\ sortRes.status = "done" =>
       /\ sortRes.failed = BadCount(sortIn)
       /\ sortRes.total = Len(sortIn) - BadCount(sortIn)
       /\ Len(sortRes.out) = sortRes.total
       /\ \A i, j \in DOMAIN sortRes.out :
            (i < j /\ sortRes.out[i].uuid # NoUuid)
              => LocaleCompare(sortRes.out[i].uuid, sortRes.out[j].uuid) <= 0

\* C10 witness: input lines b-record, not-JSON, a-record (here "B", "a")
\* sorted to a, b with one line skipped.
C10_Witness ==
  /\ sortRes.status = "done"
  /\ Len(sortIn) = 3
  /\ sortIn[1].json /\ sortIn[1].uuid = <<66>>
  /\ ~sortIn[2].json
  /\ sortIn[3].json /\ sortIn[3].uuid = <<97>>
  /\ sortRes.failed = 1 /\ sortRes.total = 2
  /\ Len(sortRes.out) = 2
  /\ sortRes.out[1].uuid = <<97>> /\ sortRes.out[2].uuid = <<66>>

----------------------------------------------------------------------------
(* Claims about the merge-join (SpecMerge) *)

\* every line of the file is a record with a uuid, and the uuids are strictly
\* ascending in code-unit order (sorted, no uuid twice)
SortedUnique(file) ==
  /\ \A i \in DOMAIN file : file[i].json /\ file[i].uuid # NoUuid
  /\ \A i \in DOMAIN file :
        i < Len(file) => LexLess(file[i].uuid, file[i + 1].uuid)

\* the uuids of the records of a file
UuidsOf(file) == { file[i].uuid : i \in { k \in DOMAIN file : file[k].json } }

\* C1: on two files that are sorted ascending by uuid in code-unit order and
\* hold no uuid twice the merge-join does not fail, and when it has finished
\* it has written one record for exactly the uuids present in both files, in
\* ascending order.
C1_InnerJoinOfSortedInputs ==
  (SortedUnique(cardFile) /\ SortedUnique(priceFile)) =>
    /\ mergePc # "failed"
    /\ mergePc = "done" =>
         /\ { output[i].uuid : i \in DOMAIN output }
              = UuidsOf(cardFile) \cap UuidsOf(priceFile)
         /\ \A i \in DOMAIN output :
              i < Len(output) => LexLess(output[i].uuid, output[i + 1].uuid)

\* C1 witness: cards {A, B, D} and prices {B, C, D} (here "1" < "B" < "a" <
\* "aB") merged to B then D.
C1_Witness ==
  /\ mergePc = "done"
  /\ [i \in DOMAIN cardFile |-> cardFile[i].uuid] = << <<49>>, <<66>>, <<97, 66>> >>
  /\ [i \in DOMAIN priceFile |-> priceFile[i].uuid] = << <<66>>, <<97>>, <<97, 66>> >>
  /\ SortedUnique(cardFile) /\ SortedUnique(priceFile)
  /\ [i \in DOMAIN output |-> output[i].uuid] = << <<66>>, <<97, 66>> >>

\* C14: the record a step of the merge-join writes has the uuid, name and
\* scryfallId of the card record at the card cursor and the prices of the
\* price record at the price cursor, whatever prices the card record and
\* whatever other fields the price record carry; when both records carry a
\* uuid, it is the same uuid.
C14_MergedRecordIsCardWithPricePrices ==
  [][ Len(output') = Len(output) + 1 =>
        LET cardObj == JsonParse(cardFile[card])
            priceObj == JsonParse(priceFile[price])
            written == output'[Len(output')]
        IN /\ written.json
           /\ written.uuid = cardObj.uuid
           /\ written.name = cardObj.name
           /\ written.scryfallId = cardObj.scryfallId
           /\ written.prices = priceObj.prices
           /\ (cardObj.uuid # NoUuid /\ priceObj.uuid # NoUuid)
                => cardObj.uuid = priceObj.uuid ]_vars

\* C14 witness: a card record with name n2 and prices of day 1 met a price
\* record with name pn, scryfallId ps and prices of day 2; the record written
\* has name n2, no scryfallId and the prices of day 2.
C14_Witness ==
  /\ mergePc = "done"
  /\ cardFile = << Line(TRUE, "compact", <<97>>, "n2", Undef, Snap1) >>
  /\ priceFile = << Line(TRUE, "compact", <<97>>, "pn", "ps", Snap2) >>
  /\ output = << Line(TRUE, "compact", <<97>>, "n2", Undef, Snap2) >>

----------------------------------------------------------------------------
(* Claims about mergePriceObjects (SpecPrices) *)

\* C3: the result of mergePriceObjects(existing, incoming) maps every price
\* point of incoming to the incoming price, every price point of existing
\* that incoming does not have to its existing price, and has no other price
\* point.
C3_MergeIsPointwiseOverride ==
  applied >= 1 =>
    /\ \A e \in Entries(argIncoming) :
         e \in Entries(merged) /\ At(merged, e) = At(argIncoming, e)
    /\ \A e \in Entries(argExisting) \ Entries(argIncoming) :
         e \in Entries(merged) /\ At(merged, e) = At(argExisting, e)
    /\ Entries(merged) \subseteq Entries(argExisting) \cup Entries(argIncoming)

\* C3 witness: a merge in which incoming overrides one price of existing,
\* adds a price point, and existing keeps a point incoming does not have.
C3_Witness ==
  /\ applied >= 1
  /\ \E e \in Entries(argExisting) \cap Entries(argIncoming) :
        At(argExisting, e) # At(argIncoming, e)
  /\ Entries(argIncoming) \ Entries(argExisting) # {}
  /\ Entries(argExisting) \ Entries(argIncoming) # {}

\* C4: merging a snapshot with date d2 into a history with another date d1
\* of the same vendor, type and finish gives a history with both dates, and
\* merging the same snapshot into the result again gives the result again.
C4_MergeIsAdditiveAndIdempotent ==
  /\ applied >= 1 =>
       \A e1 \in Entries(argExisting), e2 \in Entries(argIncoming) :
         (SubSeq(e1, 1, 3) = SubSeq(e2, 1, 3) /\ e1[4] # e2[4])
           => {e1, e2} \subseteq Entries(merged)
  /\ applied = 2 => remerged = merged

\* C4 witness: history {tcgplayer: {retail: {normal: {day 1: 5}}}}, snapshot
\* {tcgplayer: {retail: {normal: {day 2: 7}}}}, merged twice.
C4_Witness ==
  /\ applied = 2
  /\ argExisting = Leaf("tcgplayer", "retail", "normal", DateKey(1), 5)
  /\ argIncoming = Leaf("tcgplayer", "retail", "normal", DateKey(2), 7)
  /\ remerged = "tcgplayer" :> ("retail" :> ("normal" :>
                  ((DateKey(1) :> 5) @@ (DateKey(2) :> 7))))

----------------------------------------------------------------------------
(* Claims about the upload (SpecUpload) *)

\* the stored document of a uuid has the price point e at price val
Stored(coll, uuid, e, val) ==
  \E i \in DOMAIN coll :
    /\ coll[i].uuid = uuid
    /\ e \in Entries(coll[i].prices)
    /\ At(coll[i].prices, e) = val

\* C2: after any sequence of completed uploads the stored history of every
\* uuid holds every price point that any of the uploads read for it, at the
\* price read last; and no upload removes a date that was stored when it
\* started.
C2_HistoryKeepsEveryUpsertedDate ==
  /\ (clean /\ uploadPc = "done") =>
       \A k \in DOMAIN supplied : Stored(db, k[1], SubSeq(k, 2, 5), supplied[k])
  /\ \A i \in DOMAIN dbAtStart :
       \A e \in Entries(dbAtStart[i].prices) :
         \E j \in DOMAIN db :
           db[j].uuid = dbAtStart[i].uuid /\ e \in Entries(db[j].prices)

\* C6: the collection never holds two documents with the same uuid, also
\* when a merged file has several lines for one uuid.
C6_OneDocumentPerUuid ==
  \A i, j \in DOMAIN db : i # j => db[i].uuid # db[j].uuid

\* C6 witness: a second upload has completed whose file has two lines for a
\* uuid that was stored before it started.
C6_Witness ==
  /\ runs = 2 /\ uploadPc = "done"
  /\ \E i, j \in DOMAIN uploadFile :
        /\ i # j
        /\ uploadFile[i].json /\ uploadFile[j].json
        /\ uploadFile[i].uuid = uploadFile[j].uuid
        /\ Matches(dbAtStart, uploadFile[i].uuid) # {}
        /\ Matches(db, uploadFile[i].uuid) # {}

Carrying(uuid, field) ==
  { k \in 1..total : uploadFile[k].uuid = uuid /\ uploadFile[k][field] # Undef }

\* the value of a field of a uuid when the current upload started
AtStart(uuid, field) ==
  IF Matches(dbAtStart, uuid) = {} THEN Undef
  ELSE dbAtStart[CHOOSE k \in Matches(dbAtStart, uuid) : TRUE][field]

C17_RecordFailureDoesNotAbort ==
  uploadPc = "failed" =>
    \A i \in DOMAIN uploadFile :
      (i # rlPos /\ Parses(uploadFile[i])) =>
        \E j \in DOMAIN db :
          /\ db[j].uuid = uploadFile[i].uuid
          /\ Entries(uploadFile[i].prices) \subseteq Entries(db[j].prices)

\* records the current upload has read and not yet given to bulkWrite
Unwritten == rlPos - 1 - Len(sent)

C24_SameRunRecordsBothStored ==
  uploadPc = "done" =>
    \A i \in DOMAIN uploadFile :
      \E j \in DOMAIN db :
        /\ db[j].uuid = uploadFile[i].uuid
        /\ Entries(uploadFile[i].prices) \subseteq Entries(db[j].prices)

\* C25: while an upload runs, what it has given to bulkWrite is the full
\* batches of the lines read so far, and total counts them; when it has
\* completed, bulkWrite has received one operation per line of the file, in
\* the order of the lines, each made from its line, and total is the number
\* of lines.
C25_EveryLineUpsertedOnceInOrder ==
  /\ uploadPc = "loop" =>
       /\ total = Len(sent)
       /\ Len(sent) = batchSize * ((rlPos - 1) \div batchSize)
  /\ uploadPc = "done" =>
       /\ total = Len(uploadFile)
       /\ Len(sent) = Len(uploadFile)
  /\ uploadPc \in {"loop", "done"} =>
       \A i \in DOMAIN sent :
         /\ sent[i].filter = uploadFile[i].uuid
         /\ sent[i].set.name = uploadFile[i].name
         /\ Entries(uploadFile[i].prices) \subseteq Entries(sent[i].set.prices)

\* C25 witness: an upload of batchSize + 1 lines has completed: one batch
\* was flushed in the loop and the remainder at the end of input.
C25_Witness ==
  /\ uploadPc = "done"
  /\ Len(uploadFile) = batchSize + 1
  /\ total = batchSize + 1
  /\ Len(buffer) = 1

\* C27: when an upload run has ended, completed or stopped on an error, its
\* database connection is closed.
C27_ConnectionClosedAtRunEnd ==
  uploadPc \in {"done", "failed"} => conn = "closed"

----------------------------------------------------------------------------
(* Claims about killed uploads (SpecResume) *)

----------------------------------------------------------------------------
(* Claims about the whole pipeline (SpecPipeline) *)

\* C5: when the pipeline has run twice in succession on the same upstream
\* feeds, the collection after the second run equals the collection after the
\* first run: the same documents, field values, history dates and prices.
C5_SecondRunChangesNothing ==
  (stage = "end" /\ runs >= 2) => db = dbAfterFirst

\* C5 witness: the second run has ended on a merged file of three lines that
\* holds a uuid twice, with documents stored.
C5_Witness ==
  /\ stage = "end" /\ runs = 2
  /\ db # << >>
  /\ Len(uploadFile) = 3
  /\ \E i, j \in DOMAIN uploadFile : i < j /\ uploadFile[i].uuid = uploadFile[j].uuid

\* the uuids of a file never descend in code-unit order
AscendingByCodeUnits(file) ==
  \A i, j \in DOMAIN file : i < j => ~LexLess(file[j].uuid, file[i].uuid)

\* C9: the two sorted files the pipeline hands to the merge-join are ascending
\* by uuid in code-unit order, the order the merge-join advances by, and the
\* finished merge has written every uuid that both parsed files hold.
C9_SortedFilesMergeCompletely ==
  mergePc = "done" =>
    /\ AscendingByCodeUnits(cardFile)
    /\ AscendingByCodeUnits(priceFile)
    /\ (UuidsOf(parsedCards) \cap UuidsOf(parsedPrices))
          \subseteq { output[i].uuid : i \in DOMAIN output }

----------------------------------------------------------------------------
(* Claims about the filter (SpecFilter) *)

\* a raw entry in the canonical language with uuid, name and setCode present
\* and non-empty
Admissible(value) ==
  /\ value.language = "English"
  /\ value.uuid # NoUuid /\ value.uuid # << >>
  /\ value.name # Undef /\ value.name # ""
  /\ value.setCode # Undef /\ value.setCode # ""

\* the positions of the admissible entries of a feed
AdmissibleAt(feed) == { i \in DOMAIN feed : Admissible(feed[i]) }

\* C11: when parseCards has run, parsedCards.ndjson holds one line for every
\* admissible entry of the feed and no other line, in feed order: the k-th
\* line carries the uuid, name and scryfallId of the k-th admissible entry, so
\* the number of lines is the number of admissible entries.
C11_FilterKeepsExactlyAdmissible ==
  stage = "parsePrices" =>
    /\ Len(parsedCards) = Cardinality(AdmissibleAt(allIdentifiers))
    /\ \A i \in AdmissibleAt(allIdentifiers) :
         LET k == Cardinality({ j \in AdmissibleAt(allIdentifiers) : j <= i })
         IN /\ parsedCards[k].json
            /\ parsedCards[k].uuid = allIdentifiers[i].uuid
            /\ parsedCards[k].name = allIdentifiers[i].name
            /\ parsedCards[k].scryfallId = allIdentifiers[i].scryfallId

\* C11 witness: three complete English entries and two entries that are not
\* English gave three lines.
C11_Witness ==
  /\ stage = "parsePrices"
  /\ Len(allIdentifiers) = 5
  /\ Cardinality({ i \in DOMAIN allIdentifiers :
                     allIdentifiers[i].language # "English" }) = 2
  /\ Cardinality(AdmissibleAt(allIdentifiers)) = 3
  /\ Len(parsedCards) = 3

----------------------------------------------------------------------------
(* Claims about the extractor (SpecExtract) *)

\* a key of the form YYYY-MM-DD
HasDateForm(d) ==
  /\ Len(d) = 10
  /\ d[5] = 45 /\ d[8] = 45
  /\ \A i \in (1..10) \ {5, 8} : d[i] >= 48 /\ d[i] <= 57

\* the keys of date form of a date map
DateKeysOf(map) == { d \in DOMAIN map : HasDateForm(d) }

\* the (vendor, type, finish) of a feed entry that have a key of date form
Points(paper) ==
  { p \in Vendors \X Types \X Finishes :
      /\ p[1] \in Keys(paper)
      /\ p[2] \in Keys(paper[p[1]])
      /\ p[3] \in Keys(paper[p[1]][p[2]])
      /\ DateKeysOf(paper[p[1]][p[2]][p[3]]) # {} }

\* the positions of the feed entries whose identifier is in the filter's
\* output and which have a qualifying price point
QualifyingAt(cards, feed) ==
  { i \in DOMAIN feed : feed[i].key \in UuidsOf(cards) /\ Points(feed[i].paper) # {} }

\* the position in the output of the line of the qualifying entry i
RankOf(cards, feed, i) == Cardinality({ j \in QualifyingAt(cards, feed) : j <= i })

\* C12: in every line parsePrices has written, each (vendor, type, finish)
\* present holds exactly one date, the greatest key of date form of the feed's
\* date map at that place, with the price the feed gives for that date.
C12_SnapshotHoldsLatestDateOnly ==
  stage = "sortCards" =>
    \A i \in QualifyingAt(parsedCards, allPrices) :
      LET k == RankOf(parsedCards, allPrices, i)
          paper == allPrices[i].paper
      IN /\ k \in DOMAIN parsedPrices
         /\ \A v \in Keys(parsedPrices[k].prices) :
              \A t \in Keys(parsedPrices[k].prices[v]) :
                \A f \in Keys(parsedPrices[k].prices[v][t]) :
                  LET kept == parsedPrices[k].prices[v][t][f]
                  IN /\ <<v, t, f>> \in Points(paper)
                     /\ \E d \in DateKeysOf(paper[v][t][f]) :
                          /\ \A o \in DateKeysOf(paper[v][t][f]) : ~LexLess(d, o)
                          /\ DOMAIN kept = {d}
                          /\ kept[d] = paper[v][t][f][d]

\* C12 witness: the dates 2024-01-01: 10, 2024-01-03: 12, 2024-01-02: 11 of
\* the feed gave a line that holds 2024-01-03: 12 only.
C12_Witness ==
  /\ stage = "sortCards"
  /\ \E i \in DOMAIN allPrices :
       allPrices[i].paper = "tcgplayer" :> ("retail" :> ("normal" :> ThreeDays))
  /\ \E k \in DOMAIN parsedPrices :
       parsedPrices[k].prices
         = "tcgplayer" :> ("retail" :> ("normal" :> (DateKey(3) :> 12)))

\* C13: parsePrices ends without an error, and the lines it has written are,
\* in feed order, one for each feed entry whose identifier is in the filter's
\* output and which has a qualifying price point: every line has such an
\* identifier and carries at least one price, and every other entry has no line.
C13_SnapshotOnlyForAdmissibleWithPrice ==
  /\ stage \in {"parsePrices", "sortCards"}
  /\ stage = "sortCards" =>
       /\ Len(parsedPrices) = Cardinality(QualifyingAt(parsedCards, allPrices))
       /\ \A i \in QualifyingAt(parsedCards, allPrices) :
            parsedPrices[RankOf(parsedCards, allPrices, i)].uuid = allPrices[i].key
       /\ \A k \in DOMAIN parsedPrices :
            /\ parsedPrices[k].json
            /\ parsedPrices[k].uuid \in UuidsOf(parsedCards)
            /\ \E v \in Keys(parsedPrices[k].prices) :
                 \E t \in Keys(parsedPrices[k].prices[v]) :
                   \E f \in Keys(parsedPrices[k].prices[v][t]) :
                     DOMAIN parsedPrices[k].prices[v][t][f] # {}

\* C13 witness: a feed with an entry whose identifier the filter did not
\* write, an entry without a qualifying price point and one qualifying entry
\* gave exactly one line.
C13_Witness ==
  /\ stage = "sortCards"
  /\ Len(allPrices) = 3
  /\ \E i \in DOMAIN allPrices : allPrices[i].key \notin UuidsOf(parsedCards)
  /\ \E i \in DOMAIN allPrices :
       allPrices[i].key \in UuidsOf(parsedCards) /\ Points(allPrices[i].paper) = {}
  /\ Len(parsedPrices) = 1

----------------------------------------------------------------------------
(* Claims about one run of the orchestrator (SpecRun) *)

\* C15: once a stage of the run has failed, the orchestrator starts no later
\* stage and the run ends with a non-zero exit code: the run is still at the
\* failed stage or has ended with code 1.
C15_FailureStopsTheRun ==
  /\ dlFailed => stage \in {"downloadJson", "failed"}
  /\ sortRes.status = "failed" => stage = "failed"
  /\ mergePc = "failed" => stage \in {"mergeSortedNdjson", "failed"}
  /\ uploadPc = "failed" => stage \in {"uploadToMongo", "failed"}
  /\ (dlFailed \/ sortRes.status = "failed" \/ mergePc = "failed"
        \/ uploadPc = "failed") => ExitCode # "0"

\* the order in which runAll starts its steps; cleanUp runs from
\* "uploadToMongo" to "end"
NextStage ==
  [downloadJson |-> "parseCards", parseCards |-> "parsePrices",
   parsePrices |-> "sortCards", sortCards |-> "sortPrices",
   sortPrices |-> "mergeSortedNdjson", mergeSortedNdjson |-> "uploadToMongo",
   uploadToMongo |-> "end"]

\* the files a step leaves for the steps after it
OutputOf ==
  [downloadJson |-> {"AllIdentifiers.json", "AllPrices.json"},
   parseCards |-> {"parsedCards.ndjson"},
   parsePrices |-> {"parsedPrices.ndjson"},
   sortCards |-> {"cardsSorted.ndjson"},
   sortPrices |-> {"pricesSorted.ndjson"},
   mergeSortedNdjson |-> {"mergedCards.ndjson"},
   uploadToMongo |-> {}]

\* a script that takes several steps is running
Running ==
  (IF dlPc = "get" THEN {"downloadJson"} ELSE {})
  \cup (IF mergePc = "loop" THEN {"mergeSortedNdjson"} ELSE {})
  \cup (IF uploadPc = "loop" THEN {"uploadToMongo"} ELSE {})

\* C16: the steps of a run start in the fixed order; a step starts only when
\* the script of the step before it has ended and the files that script
\* leaves are completely written; and no two scripts run at the same time.
C16_StagesInOrderOnCompleteOutput ==
  /\ [](Running \subseteq {stage})
  /\ [][ (stage' # stage /\ stage' # "failed") =>
           /\ stage \in DOMAIN NextStage
           /\ stage' = NextStage[stage]
           /\ Running = {}
           /\ stage # "uploadToMongo" =>
                OutputOf[stage] \subseteq (tempFiles' \ partialFiles') ]_vars

\* C19: the cleanup step leaves in temp/ the file .keep if it was there when
\* the step started and no other file: it deletes every other file that was
\* there, never deletes .keep and creates nothing.
C19_CleanupKeepsOnlySentinel ==
  [][ stage' = "end" =>
        /\ (".keep" \in tempFiles') = (".keep" \in tempFiles)
        /\ \A file \in tempFiles \ {".keep"} : file \notin tempFiles'
        /\ tempFiles' \subseteq tempFiles ]_vars

\* C19 witness: a run that wrote a merged file has cleaned up, and .keep is
\* the only file left.
C19_Witness ==
  /\ stage = "end"
  /\ output # << >>
  /\ tempFiles = {".keep"}

\* C20: when a download has ended with a response other than 200 or with a
\* network failure, the other file has not been downloaded after it, the
\* script has reported the failure with its exit code, and the file of the
\* failed download is not in temp/.
C20_FailedDownloadLeavesNoPartialFile ==
  (dlPc = "ended" /\ dlFailed) =>
     /\ dlFile = 1 => DlName(2) \notin tempFiles
     /\ childExit = "1"
     /\ DlName(dlFile) \notin tempFiles

----------------------------------------------------------------------------
(* Claims about the enrichment pass (SpecImages) *)

\* C21: one image lookup sends at most two requests: the first, and one
\* retry after a 429 response; a 429 response to the retry ends the lookup.
C21_AtMostOneRetry == requests <= 2

\* C22: when a pass has ended, every card the query matched when the pass
\* started has been looked up exactly once, and its imageUrl is the URL the
\* lookup found, or the placeholder when the lookup found none.
C22_EveryEligibleCardLookedUpOnce ==
  imgPc = "done" =>
    \A u \in eligible :
      /\ Cardinality({ k \in DOMAIN lookups : lookups[k][1] = u }) = 1
      /\ \A k \in DOMAIN lookups : \A i \in DOMAIN db :
           (lookups[k][1] = u /\ db[i].uuid = u) =>
             db[i].imageUrl = IF lookups[k][2] = JsNull THEN PLACEHOLDER_IMAGE
                              ELSE lookups[k][2]

----------------------------------------------------------------------------
(* Claims about uploads into a collection that holds documents (SpecStore) *)

\* the operations a step gives to bulkWrite
Written == SubSeq(sent', Len(sent) + 1, Len(sent'))

\* C26: when the lookup for a record finds no stored document, or one
\* without prices, the upsert of the record leaves a document whose price
\* history is exactly the snapshot of the record.
C26_NoPriorHistoryStoresSnapshot ==
  [][ Len(sent') > Len(sent) =>
        \A k \in DOMAIN Written :
          IsNullish(ExistingPrices(db, Written[k].filter)) =>
            LET after == BulkWrite(db, SubSeq(Written, 1, k))
            IN \E i \in DOMAIN after :
                 /\ after[i].uuid = Written[k].filter
                 /\ after[i].prices = uploadFile[Len(sent) + k].prices ]_vars

\* C26 witness: an upload has completed that upserted a uuid stored without
\* prices and a uuid that was not stored; each now has the snapshot of its
\* record as history.
C26_Witness ==
  /\ uploadPc = "done"
  /\ Len(uploadFile) = 2
  /\ \E i \in DOMAIN dbAtStart :
       /\ dbAtStart[i].uuid = uploadFile[1].uuid
       /\ IsNullish(dbAtStart[i].prices)
       /\ db[i].prices = uploadFile[1].prices
  /\ Matches(dbAtStart, uploadFile[2].uuid) = {}
  /\ \E j \in DOMAIN db :
       db[j].uuid = uploadFile[2].uuid /\ db[j].prices = uploadFile[2].prices

\* C28: a write of an upload leaves the imageUrl of every document that was
\* stored before it as it was, and a document it creates has the placeholder.
C28_UploadKeepsImageUrl ==
  [][ Len(sent') > Len(sent) =>
        \A j \in DOMAIN db' :
          IF Matches(db, db'[j].uuid) = {}
          THEN db'[j].imageUrl = PLACEHOLDER_IMAGE
          ELSE \A i \in Matches(db, db'[j].uuid) :
                 db'[j].imageUrl = db[i].imageUrl ]_vars

\* C28 witness: two uploads have completed after an enrichment pass; the
\* second upserted a uuid whose image URL the pass had written, and the URL
\* is still stored.
C28_Witness ==
  /\ uploadPc = "done" /\ runs = 2
  /\ imgPc = "done"
  /\ \E i \in DOMAIN db :
       /\ \E k \in DOMAIN lookups : lookups[k] = <<db[i].uuid, db[i].imageUrl>>
       /\ db[i].imageUrl = ImageUrlOf("s1")
       /\ \E j \in DOMAIN sent : sent[j].filter = db[i].uuid
       /\ \E m \in DOMAIN dbAtStart :
            /\ dbAtStart[m].uuid = db[i].uuid
            /\ dbAtStart[m].imageUrl = db[i].imageUrl
            /\ dbAtStart[m].prices # db[i].prices

----------------------------------------------------------------------------
(* Claims about the merge-join on unsorted input (SpecMerge) *)

\* every line of the file is a record with a uuid
AllRecords(file) == \A i \in DOMAIN file : file[i].json /\ file[i].uuid # NoUuid

\* an input of records of which one side at least is not ascending by uuid
UnsortedInput ==
  /\ AllRecords(cardFile) /\ AllRecords(priceFile)
  /\ ~AscendingByCodeUnits(cardFile) \/ ~AscendingByCodeUnits(priceFile)

\* C30: on an input that is not ascending by uuid the merge-join does not
\* fail: it ends its loop after at most one iteration per input line, and
\* what it has written are records of uuids that both inputs hold.  (That it
\* can leave out such a uuid is the case of the witness.)
C30_UnsortedInputIsNotRejected ==
  UnsortedInput =>
    /\ mergePc # "failed"
    /\ iters <= Len(cardFile) + Len(priceFile)
    /\ mergePc = "loop" => iters = (card - 1) + (price - 1) - Len(output)
    /\ { output[i].uuid : i \in DOMAIN output }
         \subseteq UuidsOf(cardFile) \cap UuidsOf(priceFile)

\* C30 witness: the merge-join has finished normally on an unsorted input and
\* its output lacks a uuid that both inputs hold.
C30_Witness ==
  /\ mergePc = "done"
  /\ UnsortedInput
  /\ \E id \in UuidsOf(cardFile) \cap UuidsOf(priceFile) :
       \A i \in DOMAIN output : output[i].uuid # id

----------------------------------------------------------------------------
(* Claims about concurrent uploads (SpecRace) *)

\* the lines of a file whose price points the stored history lacks
Lost(file) ==
  { i \in DOMAIN file :
      ~ \E j \in DOMAIN db :
          /\ db[j].uuid = file[i].uuid
          /\ Entries(file[i].prices) \subseteq Entries(db[j].prices) }

\* no uuid on two lines of the file
NoUuidTwice(file) ==
  \A i, j \in DOMAIN file : i # j => file[i].uuid # file[j].uuid

\* both uploads have completed, each on a file without a uuid twice
BothDone ==
  /\ uploadPc = "done" /\ peer.pc = "done"
  /\ NoUuidTwice(uploadFile) /\ NoUuidTwice(peer.file)

\* C29: two uploads that run at the same time do not lose a record of a uuid
\* that only one of them upserts; a record one of them upserted can be missing
\* from the stored history afterwards only when the other run upserted the
\* same uuid, and then the other run's record is stored.  (That such a loss
\* happens is the case of the witness.)
C29_LostUpdateOnlyOnSharedUuid ==
  BothDone =>
    /\ \A i \in Lost(uploadFile) :
         \E k \in DOMAIN peer.file \ Lost(peer.file) :
           peer.file[k].uuid = uploadFile[i].uuid
    /\ \A k \in Lost(peer.file) :
         \E i \in DOMAIN uploadFile \ Lost(uploadFile) :
           uploadFile[i].uuid = peer.file[k].uuid

\* C29 witness: both uploads have completed, both upserted the same uuid with
\* different dates, and the stored history lacks the date of one of them.
C29_Witness ==
  /\ BothDone
  /\ \E i \in Lost(uploadFile) : \E k \in DOMAIN peer.file :
       /\ peer.file[k].uuid = uploadFile[i].uuid
       /\ Entries(peer.file[k].prices) \cap Entries(uploadFile[i].prices) = {}
       /\ k \notin Lost(peer.file)

----------------------------------------------------------------------------
(* Further claims about the merge-join (SpecMerge) *)

\* C31: on any two files of records that carry a uuid, sorted or not, every
\* line of the output is made of a card record and a price record with the
\* same uuid, code unit for code unit: it has that uuid, the name of the card
\* record and the prices of the price record.
C31_OutputJoinsEqualUuidsOnly ==
  (AllRecords(cardFile) /\ AllRecords(priceFile)) =>
    \A k \in DOMAIN output :
      \E i \in DOMAIN cardFile : \E j \in DOMAIN priceFile :
        /\ cardFile[i].uuid = priceFile[j].uuid
        /\ output[k].uuid = cardFile[i].uuid
        /\ output[k].name = cardFile[i].name
        /\ output[k].prices = priceFile[j].prices

\* C31 witness: a finished merge of unsorted files that hold "a" and "aB" has
\* written a record for "a" and none that joins "a" with "aB".
C31_Witness ==
  /\ mergePc = "done"
  /\ AllRecords(cardFile) /\ AllRecords(priceFile)
  /\ ~AscendingByCodeUnits(cardFile)
  /\ <<97, 66>> \in UuidsOf(cardFile) /\ <<97>> \in UuidsOf(priceFile)
  /\ \E k \in DOMAIN output : output[k].uuid = <<97>>

\* C32: every iteration of the loop runs with a pending record on both sides
\* and, unless JSON.parse throws in it, moves at least one cursor forward by
\* one line and none backward; so the loop makes at most
\* Len(cardFile) + Len(priceFile) iterations, and the merge ends only when a
\* side is exhausted or a line does not parse.
C32_MergeAdvancesAndTerminates ==
  /\ [](iters <= Len(cardFile) + Len(priceFile))
  /\ [](mergePc = "done" => (CardDone \/ PriceDone))
  /\ [][ iters' = iters + 1 =>
           /\ ~CardDone /\ ~PriceDone
           /\ mergePc' = "failed"
              \/ /\ card' \in {card, card + 1}
                 /\ price' \in {price, price + 1}
                 /\ card' + price' > card + price ]_vars

\* C32 witness: a merge of two files of three lines has ended after the five
\* iterations that exhaust one side.
C32_Witness ==
  /\ mergePc = "done"
  /\ Len(cardFile) = 3 /\ Len(priceFile) = 3
  /\ iters = 5

\* C33: when one of the input files is empty the merge-join does not fail,
\* makes no iteration and writes no record.
C33_EmptySideGivesEmptyOutput ==
  (cardFile = << >> \/ priceFile = << >>) =>
    /\ mergePc # "failed"
    /\ iters = 0
    /\ output = << >>

\* C33 witness: the merge-join has finished on an empty price file and a card
\* file of three lines.
C33_Witness ==
  /\ mergePc = "done"
  /\ priceFile = << >> /\ Len(cardFile) = 3
  /\ output = << >>

RECURSIVE Occurrences(_, _)
\* the lines of a file that carry the uuid, in the order of the file
Occurrences(file, id) ==
  IF file = << >> THEN << >>
  ELSE IF Head(file).uuid = id THEN <<Head(file)>> \o Occurrences(Tail(file), id)
  ELSE Occurrences(Tail(file), id)

\* the smaller of two numbers
Min(m, n) == IF m <= n THEN m ELSE n

\* both files hold records only, ascending by uuid in code-unit order (a uuid
\* may occur more than once)
SortedInput ==
  /\ AllRecords(cardFile) /\ AllRecords(priceFile)
  /\ AscendingByCodeUnits(cardFile) /\ AscendingByCodeUnits(priceFile)

\* C34: on sorted files, when the merge-join has finished, the output holds
\* for every uuid as many records as the smaller of its numbers of
\* occurrences in the two files, and the i-th of them joins the i-th card
\* record with the i-th price record of that uuid.
C34_DuplicatesPairInOrder ==
  (mergePc = "done" /\ SortedInput) =>
    \A id \in UuidsOf(cardFile) \cup UuidsOf(priceFile) :
      LET cs == Occurrences(cardFile, id)
          ps == Occurrences(priceFile, id)
          os == Occurrences(output, id)
      IN /\ Len(os) = Min(Len(cs), Len(ps))
         /\ \A i \in DOMAIN os :
              os[i] = MergedLine(JsonParse(cs[i]), JsonParse(ps[i]))

\* C34 witness: "a" occurs twice in the card file, with different names, and
\* twice in the price file, with different prices; the output pairs first
\* with first and second with second.
C34_Witness ==
  /\ mergePc = "done" /\ SortedInput
  /\ Len(Occurrences(cardFile, <<97>>)) = 2
  /\ Len(Occurrences(priceFile, <<97>>)) = 2
  /\ Occurrences(cardFile, <<97>>)[1].name # Occurrences(cardFile, <<97>>)[2].name
  /\ Occurrences(priceFile, <<97>>)[1].prices # Occurrences(priceFile, <<97>>)[2].prices
  /\ Len(Occurrences(output, <<97>>)) = 2

----------------------------------------------------------------------------
(* Further claims about the sort (SpecSort) *)

\* C35: sortNdjson completes on every input, also on one with a line that
\* parses and holds no uuid.
C35_SortCompletesOnEveryInput == sortRes.status # "failed"

\* C37: whatever ceiling on the records in memory is configured, a sort of
\* more input records than the ceiling holds at most that many records in
\* memory.
C37_ResidentRecordsBelowCeiling ==
  sortRes.status # "idle" =>
    \A ceiling \in 1..MaxLines :
      Len(sortIn) > ceiling => Resident(sortIn) <= ceiling

----------------------------------------------------------------------------
(* Claims about the extractor step by step (SpecLoad) *)

\* the identifiers of the filter's output
FilterOutputIds ==
  { JsonParse(parsedCards[i]).uuid :
      i \in { k \in DOMAIN parsedCards :
                Parses(parsedCards[k]) /\ ~FalsyId(JsonParse(parsedCards[k]).uuid) } }

\* the entries of the price feed before the one handled next
Examined == SubSeq(allPrices, 1, ppEntry - 1)

\* C36: before the first entry of the price feed is examined, every line of
\* the filter's output has been read and knownUUIDs holds every identifier of
\* it; no step examines an entry earlier, and every examined entry whose
\* identifier is in the filter's output and that has a price is written.
C36_IdentifiersCompleteBeforeFirstEntry ==
  /\ [](ppPc \in {"stream", "done"} =>
          /\ ppLine > Len(parsedCards)
          /\ knownUUIDs = FilterOutputIds
          /\ Len(parsedPrices) =
               Len(SelectSeq(Examined,
                     LAMBDA e : e.key \in FilterOutputIds
                                /\ DOMAIN PricesToday(e.paper) # {})))
  /\ [][ppEntry' # ppEntry =>
          ppLine > Len(parsedCards) /\ knownUUIDs = FilterOutputIds]_vars

\* C36 witness: the run has finished; the identifier of the first entry of the
\* price feed is the one of the last of three lines of the filter's output,
\* and its prices were written.
C36_Witness ==
  /\ ppPc = "done"
  /\ Len(parsedCards) = 3
  /\ Len(allPrices) >= 1
  /\ allPrices[1].key = JsonParse(parsedCards[3]).uuid
  /\ \A i \in 1..2 : JsonParse(parsedCards[i]).uuid # allPrices[1].key
  /\ Len(parsedPrices) >= 1
  /\ parsedPrices[1].uuid = allPrices[1].key

----------------------------------------------------------------------------
(* Claims about the cards routes (SpecApi) *)

\* the ascending dates of the normal-finish date map of a vendor and type
NormalDates(vendor, type) ==
  SortKeys(Keys(Get(Get(Get(apiPrices, vendor), type), "normal")))

\* C38: in the search route the week-ago price of a vendor is the price of
\* the entry 7 positions before the latest entry of the ascending dates of
\* the vendor's normal-finish date map, and null when there is no such entry.
C38_WeekAgoIsSevenBeforeLatest ==
  apiPc = "search" =>
    \A i \in DOMAIN vendorNames : \A t \in Types :
      LET dates == NormalDates(vendorNames[i], t)
      IN apiRes.changes[t][i].weekAgo =
           IF Len(dates) - 7 >= 1
           THEN apiPrices[vendorNames[i]][t]["normal"][dates[Len(dates) - 7]]
           ELSE NullPrice

\* every date of the stored history, under any vendor, type and finish
StoredDates ==
  UNION { Keys(Get(Get(Get(apiPrices, v), t), f)) :
            v \in Keys(apiPrices), t \in Types, f \in Finishes }

\* a sequence of strings ascends strictly
Ascending(seq) ==
  \A i \in DOMAIN seq : \A j \in DOMAIN seq : i < j => LexLess(seq[i], seq[j])

\* C39: the history of an answered detail request holds one entry per date
\* of the stored history, whatever vendor, type or finish the date is stored
\* under, and no other entry, in ascending order of the dates.
C39_HistoryHasEachStoredDateOnce ==
  (apiPc = "detail" /\ apiRes.status = 200) =>
    /\ { apiRes.history[k].date : k \in DOMAIN apiRes.history } = StoredDates
    /\ Ascending([k \in DOMAIN apiRes.history |-> apiRes.history[k].date])

\* C39 witness: the answered history has four entries, fewer than the card
\* has price points, since dates are shared between vendors and finishes.
C39_Witness ==
  /\ apiPc = "detail" /\ apiRes.status = 200
  /\ Len(apiRes.history) = 4
  /\ Cardinality(apiRes.finishes) = 3
  /\ \E k \in DOMAIN apiRes.history :
       /\ apiRes.history[k].retail["foil"].count = 2
       /\ apiRes.history[k].retail["normal"].count = 1

====
